---- MODULE Spec2Model ----
(***************************************************************************)
(* A model of album-pi: the on-disk artwork cache (image_cache.py), the    *)
(* fetch pipeline and atomic publisher (server_app.py) and the render-side *)
(* loader (display_app.py).                                                *)
(*                                                                         *)
(* Spec        : the Artwork Cache Store driven by one caller at a time    *)
(*               (put / get / clear, plus an out-of-band file deletion).   *)
(* SpecLookups : concurrent get() calls on the store, statement by         *)
(*               statement, each on its own connection.                    *)
(* SpecFetch   : concurrent /update requests running                       *)
(*               fetch_and_save_album_art statement by statement, against  *)
(*               the display's ImageLoader thread.                         *)
(* SpecRender  : the display: run_display's render loop frame by frame,    *)
(*               its ImageLoader thread, the clock, and the server         *)
(*               publishing images and display statuses.                   *)
(* SpecRetry   : one call of a function wrapped by retry_with_backoff,     *)
(*               for every policy and every run of outcomes of the         *)
(*               function.                                                 *)
(* SpecPublish : concurrent calls of save_image_atomic_from_bytes,         *)
(*               save_metadata_atomic and write_status, statement by       *)
(*               statement, against a reader of the published files.       *)
(* SpecMatch   : find_best_itunes_match on every short list of iTunes      *)
(*               results and every query.                                  *)
(* SpecStatus  : the control file, written by write_status and read by     *)
(*               get_display_status.                                       *)
(* SpecFaults  : Spec in a cache directory where os.remove fails on one    *)
(*               file.                                                     *)
(* SpecRace    : two request threads calling put / get / clear on the      *)
(*               store, each transaction and file operation a step.        *)
(* SpecApi     : two request threads calling get_cached_api_response and   *)
(*               cache_api_response, statement by statement.               *)
(* SpecProviders : the provider searches of fetch_and_save_album_art, each *)
(*               under its retry_with_backoff wrapper.                     *)
(* SpecScore   : find_best_itunes_match on one result whose fields are     *)
(*               present, absent or empty.                                 *)
(* SpecLoaderRuns : SpecFetch with the loader thread kept running.         *)
(* SpecOverlays : the status read and the weather overlay of a frame, with *)
(*               the blocking calls each thread makes.                     *)
(* SpecUpdate  : the /update route around the fetch of SpecFetch.          *)
(* SpecSuspended : SpecRender started from a PAUSED or STOPPED display,     *)
(*               with the loader and the main loop kept running.           *)
(***************************************************************************)
EXTENDS Integers, Sequences, FiniteSets, TLC

VARIABLES
    rows,       \* the rows of table "cache" (image_cache.py:26-38)
    files,      \* the image files of the cache directory: path -> bytes
    nextId,     \* the AUTOINCREMENT counter of column id
    now,        \* the value the next time.time() call returns
    last,       \* what the last completed operation was given, found and returned
    lpc,        \* concurrent get() calls: the statement each caller is at
    lterm,      \* concurrent get() calls: each caller's search_term
    lsel,       \* concurrent get() calls: the row each caller's SELECT fetched
    lret,       \* concurrent get() calls: what each caller returned
    dir,        \* the working directory: path -> inode
    inodes,     \* inode -> [data, synced, mtime]: the chunks the file holds, how
                \* many of them are forced to storage, its modification time
    ppc,        \* publishers: the statement each is at
    pjob,       \* publishers: [target, data, tmp] of the publish under way
    pbuf,       \* publishers: the chunks still in the file object's buffer
    pubSeq,     \* publish calls made so far (names the versions and temp files)
    rpc,        \* the reader: the statement it is at
    rfile,      \* the reader: [path, ino] of the file it has open
    rseen,      \* the reader: [path, data] of its last completed read
    ptouched,   \* publishers: the published files the request under way has changed
    fpc,        \* fetch requests: the statement each is at
    fterm,      \* fetch requests: search_term
    fhit,       \* fetch requests: what image_cache.get returned
    fsrc,       \* fetch requests: the chunks shutil.copy has still to write
    fresult,    \* fetch requests: the result dict returned
    fetches,    \* fetch requests made so far
    fbefore,    \* per request: the published files as the request found them
    fcalls,     \* per request: the provider, download and cache-put calls it made
    last_image_mtime,   \* ImageLoader.last_image_mtime
    mimage,     \* ImageLoader: the image loaded for the message under way
    mmeta,      \* ImageLoader: the metadata loaded for the message under way
    queue,      \* ImageLoader.queue
    max_attempts,   \* retry_with_backoff: the policy's max_attempts
    initial_delay,  \* retry_with_backoff: the policy's initial_delay
    exponential,    \* retry_with_backoff: the policy's exponential
    wpc,        \* wrapper: the statement it is at
    attempt,    \* wrapper: the loop variable attempt
    delay,      \* wrapper: the local delay
    calls,      \* wrapper: how many times func was invoked
    raised,     \* wrapper: the exceptions func raised, in order
    slept,      \* wrapper: the arguments of the time.sleep calls, in order
    outcome,    \* wrapper: what the call returned or raised
    dpc,        \* run_display: the part of the frame the loop is at
    is_transitioning,       \* TransitionManager.is_transitioning
    transition_start_time,  \* TransitionManager.transition_start_time
    tm_current_image,       \* TransitionManager.current_image
    next_image,             \* TransitionManager.next_image
    current_image,          \* run_display: current_image
    current_metadata,       \* run_display: current_metadata
    status,     \* run_display: status, as the last frame read it
    ticks,      \* pygame.time.get_ticks()
    lost,       \* the messages the loop took off the queue and started no transition to
    restarted,  \* start_transition was called while is_transitioning was set
    frame,      \* what the last frame's transition handling saw and did
    itunes_results, \* find_best_itunes_match: the argument results
    itunes_term,    \* find_best_itunes_match: the argument search_term
    itunes_best,    \* find_best_itunes_match: the result it returned
    itunes_scores,  \* find_best_itunes_match: what each 'score +=' of the loop
                    \* body added for each result
    stuck,      \* the cache files os.remove fails on (it raises OSError)
    cpc,        \* concurrent cache calls: the statement each thread is at
    cjob,       \* concurrent cache calls: [op, term, payload, entries] of the call
    ccalls,     \* concurrent cache calls: the calls made so far
    api_cache,  \* _api_cache: the entries [key, data, timestamp] in dict order
    apc,        \* API-cache calls: the statement each thread is at
    ajob,       \* API-cache calls: the call's arguments, locals and result
    acalls,     \* API-cache calls: the calls made so far
    provider,   \* the provider stage: the provider being queried
    plog,       \* the provider stage: [provider, calls, error] of each provider
                \* the pipeline is through with
    weather_config,         \* the overlays.weather section of the configuration
    weather_data,           \* OverlayRenderer.weather_data
    weather_last_update,    \* OverlayRenderer.weather_last_update
    io_calls    \* the blocking calls made so far, each with the thread that made it

cacheData == <<rows, files, nextId, last>>
cacheVars == <<cacheData, now>>
lookupVars == <<lpc, lterm, lsel, lret>>
fsVars == <<dir, inodes>>
pubVars == <<ppc, pjob, pbuf, pubSeq, ptouched>>
readerVars == <<rpc, rfile, rseen>>
fetchVars == <<fpc, fterm, fhit, fsrc, fresult, fetches, fbefore, fcalls>>
monitorVars == <<last_image_mtime, mimage, mmeta, queue>>
retryVars == <<max_attempts, initial_delay, exponential, wpc, attempt, delay, calls,
               raised, slept, outcome>>

renderVars == <<dpc, is_transitioning, transition_start_time, tm_current_image,
                next_image, current_image, current_metadata, status, ticks, lost,
                restarted, frame>>

matchVars == <<itunes_results, itunes_term, itunes_best, itunes_scores>>

\* The variables of the specifications that stand apart from the store, the
\* publisher and the display.
raceVars == <<cpc, cjob, ccalls>>
apiVars == <<api_cache, apc, ajob, acalls>>
providerVars == <<provider, plog>>
overlayVars == <<weather_config, weather_data, weather_last_update, io_calls>>
auxVars == <<matchVars, stuck, raceVars, apiVars, providerVars, overlayVars>>

vars == <<cacheVars, lookupVars, fsVars, pubVars, readerVars, fetchVars, monitorVars,
          retryVars, renderVars, auxVars>>

----------------------------------------------------------------------------
(* Bounds and configuration                                                *)

\* Operations per behaviour: every operation reads the clock once.
MaxTime == 4

\* Concurrent callers of get().
NumLookups == 3

\* Publish calls per behaviour.
MaxPublishes == 2

\* Fetch requests per behaviour.
MaxFetches == 2

\* The largest max_attempts of a retry policy.
MaxAttempts == 4

\* Requests the server serves while the display runs: images published and
\* statuses written.
MaxServed == 3

\* Clock ticks while the display runs.
MaxTicks == 3

\* self.duration = config.get('transitions.duration', 1.0), in clock ticks.
TransitionDuration == 2

\* self.max_size_bytes, in bytes (the code computes it from max_size_mb).
MaxSizeBytes == 10

\* target_size = self.max_size_bytes * 0.8, kept as the fraction 8/10.
TargetNum == 8
TargetDen == 10

\* Python's None; an Optional value is <<>> or <<v>>.
None == <<>>
Some(v) == <<v>>

\* Search terms, as sequences of characters.
Terms == { <<"a", "b">>, <<"A", "B">>, <<"c">>, <<"D">> }

\* Image bytes: n bytes of value b.
Bytes(n, b) == [i \in 1..n |-> b]

\* What a caller hands to put: (image_data, metadata, artwork_url). One image
\* is above 80% of the maximum size and one is above the maximum.
Payloads ==
    { [image |-> Bytes(3, 1),  metadata |-> [title |-> "t1"], artwork_url |-> "u1"],
      [image |-> Bytes(5, 2),  metadata |-> [title |-> "t2"], artwork_url |-> "u2"],
      [image |-> Bytes(9, 3),  metadata |-> [title |-> "t1"], artwork_url |-> "u2"],
      [image |-> Bytes(12, 4), metadata |-> [title |-> "t2"], artwork_url |-> "u1"] }

----------------------------------------------------------------------------
(* Pure helpers of image_cache.py                                          *)

\* str.lower() on one character.
LowerChar(c) ==
    CASE c = "A" -> "a"
      [] c = "B" -> "b"
      [] c = "C" -> "c"
      [] c = "D" -> "d"
      [] c = "E" -> "e"
      [] c = "F" -> "f"
      [] c = "I" -> "i"
      [] c = "K" -> "k"
      [] c = "M" -> "m"
      [] c = "P" -> "p"
      [] c = "R" -> "r"
      [] c = "S" -> "s"
      [] OTHER -> c

\* str.lower()
Lower(term) == [i \in 1..Len(term) |-> LowerChar(term[i])]

\* A digest of the term as typed (the mutant of get_cache_key).
get_cache_key_cased(search_term) == <<"md5", search_term>>

\* hashlib.md5(search_term.lower().encode()).hexdigest(): the digest of the
\* lower-cased term (a digest is taken to be collision free).
get_cache_key(search_term) == <<"md5", Lower(search_term)>>

CacheKeys == { get_cache_key(t) : t \in Terms }

\* self.cache_dir / f"{cache_key}.jpg"
FilePath(cache_key) == <<"image_cache", cache_key, ".jpg">>

CachePaths == { FilePath(k) : k \in CacheKeys }

\* json.dumps(metadata) and json.loads(metadata_json)
json_dumps(metadata) == <<"json", metadata>>
json_loads(text) == text[2]

\* os.path.exists(file_path)
path_exists(fs, file_path) == file_path \in DOMAIN fs

\* open(file_path, 'wb').write(data)
WriteFile(fs, file_path, data) ==
    [p \in DOMAIN fs \cup {file_path} |-> IF p = file_path THEN data ELSE fs[p]]

\* os.remove(file_path), guarded by os.path.exists
RemoveFile(fs, file_path) == [p \in DOMAIN fs \ {file_path} |-> fs[p]]

\* try: if os.path.exists(file_path): os.remove(file_path) / except Exception:
\* print(...): a removal that fails leaves the file and raises nothing further.
os_remove(fs, file_path) ==
    IF file_path \in stuck THEN fs ELSE RemoveFile(fs, file_path)

RECURSIVE SumSizes(_)
SumSizes(rs) ==
    IF rs = {} THEN 0
    ELSE LET r == CHOOSE x \in rs : TRUE
         IN  r.file_size + SumSizes(rs \ {r})

\* SELECT SUM(file_size) FROM cache
get_total_size(rs) == SumSizes(rs)

\* SELECT ... WHERE search_key = ? ; fetchone()
SelectByKey(rs, cache_key) == { r \in rs : r.search_key = cache_key }

\* ORDER BY created_at ASC (the mutant of Before).
BeforeByCreated(r, s) ==
    \/ r.created_at < s.created_at
    \/ r.created_at = s.created_at /\ r.id < s.id

\* ORDER BY last_accessed ASC (rows of equal last_accessed in id order).
Before(r, s) ==
    \/ r.last_accessed < s.last_accessed
    \/ r.last_accessed = s.last_accessed /\ r.id < s.id

RECURSIVE OrderByLastAccessed(_)
OrderByLastAccessed(rs) ==
    IF rs = {} THEN <<>>
    ELSE LET r == CHOOSE x \in rs : \A y \in rs \ {x} : Before(x, y)
         IN  <<r>> \o OrderByLastAccessed(rs \ {r})

----------------------------------------------------------------------------
(* ImageCache operations, as functions of the store st = [rows, files,     *)
(* nextId] and of the clock value t that time.time() returns.              *)

\* The UPDATE without its WHERE clause (a mutant of UpdateAccess).
UpdateAccessAll(rs, cache_key, t) ==
    { [r EXCEPT !.last_accessed = t, !.access_count = r.access_count + 1] : r \in rs }

\* UPDATE cache SET last_accessed = ?, access_count = access_count + 1
\* WHERE search_key = ?
UpdateAccess(rs, cache_key, t) ==
    { IF r.search_key = cache_key
      THEN [r EXCEPT !.last_accessed = t, !.access_count = r.access_count + 1]
      ELSE r : r \in rs }

\* DELETE FROM cache WHERE search_key = ?
DeleteByKey(rs, cache_key) == { r \in rs : r.search_key # cache_key }

\* The dict get() returns on a hit.
HitResult(r) ==
    [file_path |-> r.file_path,
     metadata |-> IF r.metadata # <<>> THEN json_loads(r.metadata) ELSE <<>>,
     artwork_url |-> r.artwork_url]

\* get() returning None for a missing file without deleting the row (the
\* mutant of cache_get).
cache_get_keeps_stale(st, search_term, t) ==
    LET cache_key == get_cache_key(search_term)
        result == SelectByKey(st.rows, cache_key)
    IN  IF result # {} /\ path_exists(st.files, (CHOOSE x \in result : TRUE).file_path)
        THEN [st EXCEPT !.rows = UpdateAccess(st.rows, cache_key, t)]
                 @@ [ret |-> Some(HitResult(CHOOSE x \in result : TRUE))]
        ELSE st @@ [ret |-> None]

\* ImageCache.get(search_term)
cache_get(st, search_term, t) ==
    LET cache_key == get_cache_key(search_term)
        result == SelectByKey(st.rows, cache_key)
    IN  IF result # {}
        THEN LET r == CHOOSE x \in result : TRUE
             IN  IF path_exists(st.files, r.file_path)
                 THEN [st EXCEPT !.rows = UpdateAccess(st.rows, cache_key, t)]
                          @@ [ret |-> Some(HitResult(r))]
                 ELSE [st EXCEPT !.rows = DeleteByKey(st.rows, cache_key)]
                          @@ [ret |-> None]
        ELSE st @@ [ret |-> None]

\* INSERT OR REPLACE with access_count left to its default 0 (the mutant of
\* InsertOrReplace).
InsertOrReplaceResetCount(rs, id, cache_key, file_path, metadata, artwork_url, file_size, t) ==
    DeleteByKey(rs, cache_key) \cup
    { [id |-> id, search_key |-> cache_key, file_path |-> file_path,
       metadata |-> json_dumps(metadata), artwork_url |-> artwork_url,
       file_size |-> file_size, created_at |-> t, last_accessed |-> t,
       access_count |-> 0] }

\* INSERT OR REPLACE INTO cache (...) VALUES (..., COALESCE((SELECT access_count
\* FROM cache WHERE search_key = ?), 0)): the row of the same search_key, if
\* there is one, is deleted and the new row takes a fresh id.
InsertOrReplace(rs, id, cache_key, file_path, metadata, artwork_url, file_size, t) ==
    LET old == SelectByKey(rs, cache_key)
        count == IF old = {} THEN 0 ELSE (CHOOSE x \in old : TRUE).access_count
    IN  DeleteByKey(rs, cache_key) \cup
        { [id |-> id, search_key |-> cache_key, file_path |-> file_path,
           metadata |-> json_dumps(metadata), artwork_url |-> artwork_url,
           file_size |-> file_size, created_at |-> t, last_accessed |-> t,
           access_count |-> count] }

\* The loop of _remove_least_recently_used over entries[i..]: st carries rows,
\* files, current_size and the rows evicted so far.
RECURSIVE EvictLoop(_, _, _)
EvictLoop(entries, i, st) ==
    IF i > Len(entries) \/ st.current_size * TargetDen <= MaxSizeBytes * TargetNum
    THEN st
    ELSE LET e == entries[i]
         IN  EvictLoop(entries, i + 1,
                 [rows |-> DeleteByKey(st.rows, e.search_key),
                  files |-> os_remove(st.files, e.file_path),
                  current_size |-> st.current_size - e.file_size,
                  evicted |-> Append(st.evicted, e)])

\* A pass that evicts the oldest entry only (the mutant of
\* remove_least_recently_used).
remove_oldest_only(rs, fs) ==
    LET entries == OrderByLastAccessed(rs)
        e == entries[1]
    IN  [rows |-> DeleteByKey(rs, e.search_key),
         files |-> RemoveFile(fs, e.file_path),
         current_size |-> get_total_size(rs) - e.file_size,
         evicted |-> <<e>>]

\* ImageCache._remove_least_recently_used()
remove_least_recently_used(rs, fs) ==
    EvictLoop(OrderByLastAccessed(rs), 1,
              [rows |-> rs, files |-> fs, current_size |-> get_total_size(rs),
               evicted |-> <<>>])

\* A cleanup that runs the eviction pass whatever the total (a mutant of
\* cleanup_if_needed).
cleanup_always(rs, fs) == remove_least_recently_used(rs, fs)

\* ImageCache._cleanup_if_needed()
cleanup_if_needed(rs, fs) ==
    IF get_total_size(rs) > MaxSizeBytes
    THEN remove_least_recently_used(rs, fs)
    ELSE [rows |-> rs, files |-> fs, current_size |-> get_total_size(rs),
          evicted |-> <<>>]

\* ImageCache.put(search_term, image_data, metadata, artwork_url)
cache_put(st, search_term, image_data, metadata, artwork_url, t) ==
    LET cache_key == get_cache_key(search_term)
        file_path == FilePath(cache_key)
        written == WriteFile(st.files, file_path, image_data)
        inserted == InsertOrReplace(st.rows, st.nextId, cache_key, file_path,
                                    metadata, artwork_url, Len(image_data), t)
        cleaned == cleanup_if_needed(inserted, written)
    IN  [rows |-> cleaned.rows, files |-> cleaned.files, nextId |-> st.nextId + 1,
         ret |-> file_path, evicted |-> cleaned.evicted,
         total |-> get_total_size(inserted)]

\* A clear that keeps the rows whose file it could not remove (a mutant of
\* cache_clear).
cache_clear_keeps_failed(st) ==
    [st EXCEPT !.rows = { r \in st.rows : /\ path_exists(st.files, r.file_path)
                                           /\ r.file_path \in stuck },
               !.files = [p \in { q \in DOMAIN st.files :
                                     \/ \A r \in st.rows : r.file_path # q
                                     \/ q \in stuck }
                            |-> st.files[p]]]

\* ImageCache.clear()
cache_clear(st) ==
    [st EXCEPT !.rows = {},
               !.files = [p \in { q \in DOMAIN st.files :
                                     \/ \A r \in st.rows : r.file_path # q
                                     \/ os_remove(st.files, q) = st.files }
                            |-> st.files[p]]]

\* ImageCache.get_stats()
get_stats(rs) ==
    [entry_count |-> Cardinality(rs),
     total_size |-> get_total_size(rs),
     max_size |-> MaxSizeBytes,
     total_accesses |-> LET RECURSIVE Acc(_)
                            Acc(s) == IF s = {} THEN 0
                                      ELSE LET r == CHOOSE x \in s : TRUE
                                           IN  r.access_count + Acc(s \ {r})
                        IN  Acc(rs)]

----------------------------------------------------------------------------------------------------------------------------------------
(* The store driven by one caller at a time                                *)

Store == [rows |-> rows, files |-> files, nextId |-> nextId]

\* The record of an operation without its snapshots.
Light(l) == [op |-> l.op, term |-> l.term, payload |-> l.payload, ret |-> l.ret,
             total |-> l.total]

\* last: op, its arguments (term, payload), what it returned (ret), the rows
\* its cleanup pass evicted in order (evicted), the total size right after its
\* insert (total), the rows before it (pre) and the operation before it (prev).
Done(op, term, payload, ret, evicted, total) ==
    [op |-> op, term |-> term, payload |-> payload, ret |-> ret,
     evicted |-> evicted, total |-> total, pre |-> rows, prev |-> Light(last)]

\* The variables of the other specifications, at rest.
NoLookups == lpc = <<>> /\ lterm = <<>> /\ lsel = <<>> /\ lret = <<>>
NoFs == dir = <<>> /\ inodes = <<>>
NoPublishers == ppc = <<>> /\ pjob = <<>> /\ pbuf = <<>> /\ pubSeq = 0 /\ ptouched = <<>>
NoReader == rpc = "off" /\ rfile = <<>> /\ rseen = <<>>
NoFetches == fpc = <<>> /\ fterm = <<>> /\ fhit = <<>> /\ fsrc = <<>>
             /\ fresult = <<>> /\ fetches = 0 /\ fbefore = <<>>
             /\ fcalls = <<>>
NoMonitor == last_image_mtime = 0 /\ mimage = <<>> /\ mmeta = <<>> /\ queue = <<>>
NoRetry == /\ max_attempts = 0 /\ initial_delay = 0 /\ exponential = FALSE
           /\ wpc = "off" /\ attempt = 0 /\ delay = 0 /\ calls = 0
           /\ raised = <<>> /\ slept = <<>> /\ outcome = <<>>
NoFrame == [status |-> "unread", transitioning |-> FALSE, elapsed |-> 0,
            complete |-> FALSE]
NoRender == /\ dpc = "off" /\ is_transitioning = FALSE /\ transition_start_time = 0
            /\ tm_current_image = <<>> /\ next_image = <<>> /\ current_image = <<>>
            /\ current_metadata = <<>> /\ status = "unread" /\ ticks = 0
            /\ lost = <<>> /\ restarted = FALSE /\ frame = NoFrame
NoMatch ==
    /\ itunes_results = <<>> /\ itunes_term = <<>> /\ itunes_best = <<>>
    /\ itunes_scores = <<>>
NoRace == cpc = <<>> /\ cjob = <<>> /\ ccalls = 0
NoApi == api_cache = <<>> /\ apc = <<>> /\ ajob = <<>> /\ acalls = 0
NoProviders == provider = "none" /\ plog = <<>>
NoOverlays ==
    /\ weather_config = <<>> /\ weather_data = <<>> /\ weather_last_update = 0
    /\ io_calls = {}
NoAux == NoMatch /\ stuck = {} /\ NoRace /\ NoApi /\ NoProviders /\ NoOverlays
NotCache == <<lookupVars, fsVars, pubVars, readerVars, fetchVars, monitorVars, retryVars,
              renderVars,
    auxVars>>

Init ==
    /\ NoAux
    /\ NoLookups /\ NoFs /\ NoPublishers /\ NoReader /\ NoFetches /\ NoMonitor
    /\ NoRetry /\ NoRender
    /\ rows = {}
    /\ files = <<>>
    /\ nextId = 1
    /\ now = 1
    /\ last = [op |-> "none", term |-> <<>>, payload |-> <<>>, ret |-> None,
               evicted |-> <<>>, total |-> 0, pre |-> {},
               prev |-> [op |-> "none", term |-> <<>>, payload |-> <<>>,
                         ret |-> None, total |-> 0]]

\* cache.put(search_term, image_data, metadata, artwork_url)
Put ==
    /\ now <= MaxTime
    /\ \E search_term \in Terms, p \in Payloads :
         LET res == cache_put(Store, search_term, p.image, p.metadata,
                              p.artwork_url, now)
         IN  /\ rows' = res.rows
             /\ files' = res.files
             /\ nextId' = res.nextId
             /\ last' = Done("put", search_term, p, res.ret, res.evicted, res.total)
    /\ now' = now + 1
    /\ UNCHANGED NotCache

\* cache.get(search_term)
Get ==
    /\ now <= MaxTime
    /\ \E search_term \in Terms :
         LET res == cache_get(Store, search_term, now)
         IN  /\ rows' = res.rows
             /\ files' = res.files
             /\ last' = Done("get", search_term, <<>>, res.ret, <<>>, 0)
    /\ now' = now + 1
    /\ UNCHANGED <<nextId, NotCache>>

\* cache.clear()
Clear ==
    /\ now <= MaxTime
    /\ LET res == cache_clear(Store)
       IN  /\ rows' = res.rows
           /\ files' = res.files
           /\ last' = Done("clear", <<>>, <<>>, None, <<>>, 0)
    /\ now' = now + 1
    /\ UNCHANGED <<nextId, NotCache>>

\* Something other than the cache deletes a backing file (out-of-band).
DeleteOutOfBand ==
    /\ now <= MaxTime
    /\ \E p \in DOMAIN files :
         /\ files' = RemoveFile(files, p)
         /\ last' = Done("unlink", <<>>, <<>>, p, <<>>, 0)
    /\ now' = now + 1
    /\ UNCHANGED <<rows, nextId, NotCache>>

Next == Put \/ Get \/ Clear \/ DeleteOutOfBand

Spec == Init /\ [][Next]_vars

----------------------------------------------------------------------------
(* Concurrent get() calls (SpecLookups). Each call opens its own           *)
(* connection; a statement is one step, and SQLite runs each UPDATE and    *)
(* its commit under the database write lock.                               *)

Procs == 1..NumLookups

NotLookups == <<fsVars, pubVars, readerVars, fetchVars, monitorVars, retryVars,
                renderVars,
    auxVars>>

NoRow == {}

\* The terms the concurrent callers use: two spellings of one key and another key.
LookupTerms == { <<"a", "b">>, <<"A", "B">>, <<"c">> }

\* The store after one put into an empty cache.
InitLookups ==
    /\ NoAux
    /\ \E search_term \in { <<"a", "b">> },
          p \in { q \in Payloads : Len(q.image) * TargetDen <= MaxSizeBytes * TargetNum } :
         LET res == cache_put([rows |-> {}, files |-> <<>>, nextId |-> 1],
                              search_term, p.image, p.metadata, p.artwork_url, 1)
         IN  /\ rows = res.rows
             /\ files = res.files
             /\ nextId = res.nextId
             /\ last = [op |-> "put", term |-> search_term, payload |-> p,
                        ret |-> res.ret, evicted |-> res.evicted,
                        total |-> res.total, pre |-> {},
                        prev |-> [op |-> "none", term |-> <<>>, payload |-> <<>>,
                                  ret |-> None, total |-> 0]]
    /\ now = 2
    /\ NoFs /\ NoPublishers /\ NoReader /\ NoFetches /\ NoMonitor
    /\ NoRetry /\ NoRender
    /\ lpc = [p \in Procs |-> "call"]
    /\ lterm = [p \in Procs |-> <<>>]
    /\ lsel = [p \in Procs |-> NoRow]
    /\ lret = [p \in Procs |-> None]

\* get(search_term) is called: cache_key = self._get_cache_key(search_term)
LookupCall(self) ==
    /\ lpc[self] = "call"
    /\ \E search_term \in LookupTerms : lterm' = [lterm EXCEPT ![self] = search_term]
    /\ lpc' = [lpc EXCEPT ![self] = "select"]
    /\ UNCHANGED <<cacheVars, lsel, lret, NotLookups>>

\* cursor.execute(SELECT ...); result = cursor.fetchone()
LookupSelect(self) ==
    /\ lpc[self] = "select"
    /\ lsel' = [lsel EXCEPT ![self] = SelectByKey(rows, get_cache_key(lterm[self]))]
    /\ lpc' = [lpc EXCEPT ![self] = "exists"]
    /\ UNCHANGED <<cacheVars, lterm, lret, NotLookups>>

\* if result: ... if os.path.exists(file_path): / else: / return None
LookupExists(self) ==
    /\ lpc[self] = "exists"
    /\ IF lsel[self] = NoRow
       THEN /\ lpc' = [lpc EXCEPT ![self] = "done"]
            /\ lret' = [lret EXCEPT ![self] = None]
       ELSE /\ lpc' = [lpc EXCEPT ![self] =
                         IF path_exists(files, (CHOOSE r \in lsel[self] : TRUE).file_path)
                         THEN "update" ELSE "delete"]
            /\ UNCHANGED lret
    /\ UNCHANGED <<cacheVars, lterm, lsel, NotLookups>>

\* An UPDATE that writes back the fetched access_count plus one (the mutant
\* of LookupUpdate).
LookupUpdateStale(self) ==
    /\ lpc[self] = "update"
    /\ rows' = { IF r.search_key = get_cache_key(lterm[self])
                 THEN [r EXCEPT !.last_accessed = now,
                                !.access_count =
                                    (CHOOSE x \in lsel[self] : TRUE).access_count + 1]
                 ELSE r : r \in rows }
    /\ now' = now + 1
    /\ lpc' = [lpc EXCEPT ![self] = "return"]
    /\ UNCHANGED <<files, nextId, last, lterm, lsel, lret, NotLookups>>

\* cursor.execute(UPDATE cache SET last_accessed = ?, access_count =
\* access_count + 1 WHERE search_key = ?); conn.commit()
LookupUpdate(self) ==
    /\ lpc[self] = "update"
    /\ rows' = UpdateAccess(rows, get_cache_key(lterm[self]), now)
    /\ now' = now + 1
    /\ lpc' = [lpc EXCEPT ![self] = "return"]
    /\ UNCHANGED <<files, nextId, last, lterm, lsel, lret, NotLookups>>

\* return {'file_path': ..., 'metadata': ..., 'artwork_url': ...}
LookupReturn(self) ==
    /\ lpc[self] = "return"
    /\ lret' = [lret EXCEPT ![self] = Some(HitResult(CHOOSE r \in lsel[self] : TRUE))]
    /\ lpc' = [lpc EXCEPT ![self] = "done"]
    /\ UNCHANGED <<cacheVars, lterm, lsel, NotLookups>>

\* The lookups of SpecLookups run against files that nothing deletes, so the
\* branch that purges a stale row is never taken there.
NextLookups ==
    \E self \in Procs :
        \/ LookupCall(self)
        \/ LookupSelect(self)
        \/ LookupExists(self)
        \/ LookupUpdate(self)
        \/ LookupReturn(self)

SpecLookups == InitLookups /\ [][NextLookups]_vars

----------------------------------------------------------------------------
(* The working directory, as the operating system keeps it: names bound to *)
(* inodes. fs = [dir, inodes]; a file that is open stays readable through  *)
(* its inode after its name is rebound.                                    *)

IMAGE_PATH == "current_album_art.jpg"
METADATA_PATH == "current_metadata.json"
STATUS_FILE == "display_status.txt"

Targets == { IMAGE_PATH, METADATA_PATH, STATUS_FILE }

\* The bytes of version v of a published file, in the chunks they are written in.
Content(v) == << <<v, 1>>, <<v, 2>> >>

\* A file holds all the chunks of one version.
Complete(data) == Len(data) = 2 /\ data = Content(data[1][1])

Fs == [dir |-> dir, inodes |-> inodes]

\* The lowest inode number not in use.
FreeInode(fs) == CHOOSE i \in 1..(Cardinality(DOMAIN fs.inodes) + 1) : i \notin DOMAIN fs.inodes

\* The kernel frees an inode once no name and no open file refers to it.
Release(fs, held) ==
    [fs EXCEPT !.inodes = [i \in { j \in DOMAIN fs.inodes :
                                     j \in held \/ \E q \in DOMAIN fs.dir : fs.dir[q] = j }
                           |-> fs.inodes[i]]]

\* open(path, 'w'): a new empty file under a new name, or the file of an
\* existing name truncated in place.
OpenWrite(fs, path, t) ==
    IF path \in DOMAIN fs.dir
    THEN [fs EXCEPT !.inodes[fs.dir[path]] = [data |-> <<>>, synced |-> 0, mtime |-> t]]
    ELSE LET i == FreeInode(fs)
         IN  [dir |-> [q \in DOMAIN fs.dir \cup {path} |->
                         IF q = path THEN i ELSE fs.dir[q]],
              inodes |-> [j \in DOMAIN fs.inodes \cup {i} |->
                         IF j = i THEN [data |-> <<>>, synced |-> 0, mtime |-> t]
                         ELSE fs.inodes[j]]]

\* write(2) of chunks at the end of the file at path.
AppendTo(fs, path, chunks, t) ==
    [fs EXCEPT !.inodes[fs.dir[path]] =
        [data |-> @.data \o chunks, synced |-> @.synced, mtime |-> t]]

\* os.fsync(fileno)
Fsync(fs, path) ==
    [fs EXCEPT !.inodes[fs.dir[path]].synced = Len(fs.inodes[fs.dir[path]].data)]

\* os.rename(src, dst), as shutil.move does within one directory.
Rename(fs, src, dst) ==
    IF src = dst THEN fs
    ELSE [fs EXCEPT !.dir = [q \in (DOMAIN fs.dir \cup {dst}) \ {src} |->
                                IF q = dst THEN fs.dir[src] ELSE fs.dir[q]]]

----------------------------------------------------------------------------
(* The Atomic Publisher: save_image_atomic_from_bytes, save_metadata_atomic *)
(* and write_status, one statement per step (SpecPublish).                  *)

Publishers == { "p1", "p2" }

\* The variables the publisher and the reader leave alone.
restVars == <<lookupVars, fetchVars, monitorVars, retryVars, renderVars,
    auxVars>>

NoJob == [target |-> "", data |-> <<>>, tmp |-> ""]

\* The name NamedTemporaryFile gives its n-th file: a name no other file has.
TempName(n) == "tmp" \o ToString(n)

\* The inodes some process has open.
Held == { rfile[k].ino : k \in DOMAIN rfile }

\* The path a publisher opens for writing were it to write over the target
\* (the mutant of WritePath).
WriteInPlace(tmp, target) == target

\* tempfile.NamedTemporaryFile(delete=False, dir='.'): the file a publisher
\* writes is a new file of its own in the target's directory.
WritePath(tmp, target) == tmp

\* The published files as a display that ran before left them, and a reader.
InitPublish ==
    /\ NoAux
    /\ rows = {} /\ files = <<>> /\ nextId = 1 /\ now = 1
    /\ last = [op |-> "none", term |-> <<>>, payload |-> <<>>, ret |-> None,
               evicted |-> <<>>, total |-> 0, pre |-> {},
               prev |-> [op |-> "none", term |-> <<>>, payload |-> <<>>,
                         ret |-> None, total |-> 0]]
    /\ NoLookups /\ NoFetches /\ NoMonitor
    /\ NoRetry /\ NoRender
    /\ dir = [q \in { IMAGE_PATH, METADATA_PATH } |->
                 IF q = IMAGE_PATH THEN 1 ELSE 2]
    /\ inodes = [i \in {1, 2} |-> [data |-> Content(0), synced |-> 2, mtime |-> 0]]
    /\ ppc = [p \in Publishers |-> "idle"]
    /\ pjob = [p \in Publishers |-> NoJob]
    /\ pbuf = [p \in Publishers |-> <<>>]
    /\ pubSeq = 0
    /\ ptouched = [p \in Publishers |-> {}]
    /\ rpc = "idle"
    /\ rfile = <<>>
    /\ rseen = <<>>

\* save_image_atomic_from_bytes(img_bytes), save_metadata_atomic(metadata) or
\* write_status(status) is called.
PubCall(self) ==
    /\ ppc[self] = "idle"
    /\ pubSeq < MaxPublishes
    /\ pubSeq' = pubSeq + 1
    /\ \E target \in Targets :
         pjob' = [pjob EXCEPT ![self] =
                    [target |-> target, data |-> Content(pubSeq + 1),
                     tmp |-> TempName(pubSeq + 1)]]
    /\ ppc' = [ppc EXCEPT ![self] = "create"]
    /\ ptouched' = [ptouched EXCEPT ![self] = {}]
    /\ UNCHANGED <<cacheVars, restVars, fsVars, pbuf, readerVars>>

\* with tempfile.NamedTemporaryFile(..., delete=False, dir='.') as temp_file:
\* (the clock is read by every write and moves on between two creations)
PubCreate(self) ==
    /\ ppc[self] = "create"
    /\ LET fs == OpenWrite(Fs, WritePath(pjob[self].tmp, pjob[self].target), now)
       IN  dir' = fs.dir /\ inodes' = fs.inodes
    /\ now' = now + 1
    /\ ppc' = [ppc EXCEPT ![self] = "write"]
    /\ UNCHANGED <<cacheData, restVars, pjob, pbuf, pubSeq, ptouched, readerVars>>

\* temp_file.write(...): the file object hands the leading chunks to the
\* operating system and keeps the last one in its buffer.
PubWrite(self) ==
    /\ ppc[self] = "write"
    /\ LET data == pjob[self].data
           fs == AppendTo(Fs, WritePath(pjob[self].tmp, pjob[self].target),
                          SubSeq(data, 1, Len(data) - 1), now)
       IN  /\ dir' = fs.dir /\ inodes' = fs.inodes
           /\ pbuf' = [pbuf EXCEPT ![self] = SubSeq(data, Len(data), Len(data))]
    /\ ppc' = [ppc EXCEPT ![self] = "flush"]
    /\ UNCHANGED <<cacheVars, restVars, pjob, pubSeq, ptouched, readerVars>>

\* temp_file.flush()
PubFlush(self) ==
    /\ ppc[self] = "flush"
    /\ LET fs == AppendTo(Fs, WritePath(pjob[self].tmp, pjob[self].target),
                          pbuf[self], now)
       IN  dir' = fs.dir /\ inodes' = fs.inodes
    /\ pbuf' = [pbuf EXCEPT ![self] = <<>>]
    /\ ppc' = [ppc EXCEPT ![self] = "fsync"]
    /\ UNCHANGED <<cacheVars, restVars, pjob, pubSeq, ptouched, readerVars>>

\* os.fsync(temp_file.fileno()), and the with block closes the file
PubFsync(self) ==
    /\ ppc[self] = "fsync"
    /\ LET fs == Fsync(Fs, WritePath(pjob[self].tmp, pjob[self].target))
       IN  dir' = fs.dir /\ inodes' = fs.inodes
    /\ ppc' = [ppc EXCEPT ![self] = "move"]
    /\ UNCHANGED <<cacheVars, restVars, pjob, pbuf, pubSeq, ptouched, readerVars>>

\* shutil.move(temp_file.name, target), and the call returns
PubMove(self) ==
    /\ ppc[self] = "move"
    /\ LET fs == Release(Rename(Fs, WritePath(pjob[self].tmp, pjob[self].target),
                                pjob[self].target), Held)
       IN  dir' = fs.dir /\ inodes' = fs.inodes
    /\ ppc' = [ppc EXCEPT ![self] = "idle"]
    /\ ptouched' = [ptouched EXCEPT ![self] = @ \cup {pjob[self].target}]
    /\ pjob' = [pjob EXCEPT ![self] = NoJob]
    /\ UNCHANGED <<cacheVars, restVars, pbuf, pubSeq, readerVars>>

\* A reader opens a published file: open(path, 'r'). A missing file raises
\* FileNotFoundError and the reader reads nothing.
ReaderOpen ==
    /\ rpc = "idle"
    /\ \E path \in Targets :
         /\ path \in DOMAIN dir
         /\ rfile' = [k \in {"r"} |-> [path |-> path, ino |-> dir[path]]]
    /\ rpc' = "read"
    /\ UNCHANGED <<cacheVars, restVars, fsVars, pubVars, rseen>>

\* f.read(), and the file is closed
ReaderRead ==
    /\ rpc = "read"
    /\ rseen' = [path |-> rfile["r"].path, data |-> inodes[rfile["r"].ino].data]
    /\ rfile' = <<>>
    /\ LET fs == Release(Fs, {})
       IN  dir' = fs.dir /\ inodes' = fs.inodes
    /\ rpc' = "idle"
    /\ UNCHANGED <<cacheVars, restVars, pubVars>>

NextPublish ==
    \/ \E self \in Publishers :
          \/ PubCall(self)
          \/ PubCreate(self)
          \/ PubWrite(self)
          \/ PubFlush(self)
          \/ PubFsync(self)
          \/ PubMove(self)
    \/ ReaderOpen
    \/ ReaderRead

SpecPublish == InitPublish /\ [][NextPublish]_vars

----------------------------------------------------------------------------
(* The API-response cache of server_app.py: the module-level dict          *)
(* _api_cache, as the sequence of its entries [key, data, timestamp] in    *)
(* dict order (the order in which the keys were first inserted).           *)

\* The cap on len(_api_cache): 100 in the source, scaled down.
ApiCacheCap == 1

\* config.get('server.cache_duration', 3600), in clock ticks.
CacheDuration == 2

\* The position of key k in the dict, 0 when it is not a key.
ApiIndex(cache, k) ==
    IF \E i \in 1..Len(cache) : cache[i].key = k
    THEN CHOOSE i \in 1..Len(cache) : cache[i].key = k
    ELSE 0

\* _api_cache[cache_key] = (data, time.time())
ApiSet(cache, k, data, t) ==
    LET i == ApiIndex(cache, k)
        entry == [key |-> k, data |-> data, timestamp |-> t]
    IN  IF i = 0 THEN Append(cache, entry) ELSE [cache EXCEPT ![i] = entry]

\* min(_api_cache.keys(), key=lambda k: _api_cache[k][1]): the position of the
\* first key of minimal timestamp.
ApiOldest(cache) ==
    CHOOSE i \in 1..Len(cache) :
        /\ \A j \in 1..Len(cache) : cache[i].timestamp <= cache[j].timestamp
        /\ \A j \in 1..(i - 1) : cache[j].timestamp > cache[i].timestamp

\* del _api_cache[oldest_key]
ApiDel(cache, i) == SubSeq(cache, 1, i - 1) \o SubSeq(cache, i + 1, Len(cache))

\* if len(_api_cache) > 100: oldest_key = min(...); del _api_cache[oldest_key]
ApiTrim(cache) ==
    IF Len(cache) > ApiCacheCap THEN ApiDel(cache, ApiOldest(cache)) ELSE cache

\* An age test that lets an entry of age cache_duration through (a mutant of
\* IsFresh).
IsFreshInclusive(t, timestamp) == t - timestamp <= CacheDuration

\* time.time() - timestamp < cache_duration
IsFresh(t, timestamp) == t - timestamp < CacheDuration

\* get_cached_api_response(search_term), run without interruption.
get_cached_api_response(cache, search_term, t) ==
    LET i == ApiIndex(cache, get_cache_key(search_term))
    IN  IF i # 0 /\ IsFresh(t, cache[i].timestamp) THEN Some(cache[i].data) ELSE None

\* cache_api_response(search_term, data), run without interruption.
cache_api_response(cache, search_term, data, t) ==
    ApiTrim(ApiSet(cache, get_cache_key(search_term), data, t))

----------------------------------------------------------------------------
(* The Fetch Pipeline: fetch_and_save_album_art and download_and_save, one *)
(* statement per step, run by the request handlers of the threaded server  *)
(* (SpecFetch). A handler publishes through the publisher steps above.     *)

FetchTerms == { <<"a", "b">>, <<"c">> }

\* The request handler threads of the server: the requests are served one
\* after another here.
Handlers == {"p1"}

\* What the provider returns for a term: its metadata, its artwork URL, and
\* the JPEG bytes download_and_save makes of the artwork.
ProviderMeta(search_term) == [title |-> Lower(search_term)]
ProviderUrl(search_term) == <<"url", Lower(search_term)>>
ImageBytes(search_term) == Content(<<"jpg", Lower(search_term)>>)

\* json.dump(metadata, temp_file, ...): the text of the metadata file.
MetaText(metadata) == Content(json_dumps(metadata))

Success == [success |-> TRUE]
Failure == [success |-> FALSE]

\* {"success": False, "message": f"No results found for '{search_term}'"}
NotFound == [success |-> FALSE, message |-> "No results found"]

\* A fetch that asks the providers whatever the cache returned (the mutant of
\* AfterCacheGet).
AfterCacheGetIgnoreHit(cached) == "search"

\* if cached: the copy of the cached file; otherwise the search
AfterCacheGet(cached) == IF cached # None THEN "copy" ELSE "search"

\* A fetch that asks the providers whatever the API-response cache returned (a
\* mutant of AfterApiCache).
AfterApiCacheAskProviders(cached_api) == "provider"

\* api_cached = get_cached_api_response(search_term); if api_cached: return
\* download_and_save_from_cache(api_cached, search_term); otherwise the
\* providers are asked
AfterApiCache(cached_api) == IF cached_api # None THEN "download" ELSE "provider"

\* What the pipeline stores in the API-response cache for a term: the
\* provider's result.
ProviderResult(search_term) ==
    [metadata |-> ProviderMeta(search_term), artwork_url |-> ProviderUrl(search_term)]

\* A fetch that goes on to download without a result (the mutant of
\* AfterSearch).
AfterSearchGoOn(found) == "download"

\* if not result: return {"success": False, ...}; otherwise download_and_save
AfterSearch(found) == IF found THEN "download" ELSE "done"
NoResult == [success |-> FALSE, pending |-> TRUE]

\* The variables a fetch step leaves alone besides those it names.
fetchRest == <<lookupVars, readerVars, monitorVars, retryVars, renderVars,
    auxVars>>

\* The same without the API-response cache.
fetchRestButApi == <<lookupVars, readerVars, monitorVars, retryVars, renderVars,
                     matchVars, stuck, raceVars, apc, ajob, acalls, providerVars,
                     overlayVars>>

InitFetch ==
    /\ NoAux
    /\ rows = {} /\ files = <<>> /\ nextId = 1 /\ now = 1
    /\ last = [op |-> "none", term |-> <<>>, payload |-> <<>>, ret |-> None,
               evicted |-> <<>>, total |-> 0, pre |-> {},
               prev |-> [op |-> "none", term |-> <<>>, payload |-> <<>>,
                         ret |-> None, total |-> 0]]
    /\ NoLookups
    /\ NoFs
    /\ ppc = [p \in Publishers |-> "idle"]
    /\ pjob = [p \in Publishers |-> NoJob]
    /\ pbuf = [p \in Publishers |-> <<>>]
    /\ pubSeq = 0
    /\ ptouched = [p \in Publishers |-> {}]
    /\ fpc = [p \in Publishers |-> "idle"]
    /\ fterm = [p \in Publishers |-> <<>>]
    /\ fhit = [p \in Publishers |-> None]
    /\ fsrc = [p \in Publishers |-> <<>>]
    /\ fresult = [p \in Publishers |-> NoResult]
    /\ fetches = 0
    /\ fbefore = [p \in Publishers |-> <<>>]
    /\ fcalls = [p \in Publishers |-> {}]
    /\ rpc = "poll" /\ rfile = <<>> /\ rseen = <<>>
    /\ NoMonitor
    /\ NoRetry /\ NoRender

\* The content of the published current files (image and metadata).
Published ==
    [path \in {IMAGE_PATH, METADATA_PATH} \cap DOMAIN dir |-> inodes[dir[path]].data]

\* The handler calls a publisher function for target with data.
StartPublish(self, target, data) ==
    /\ pubSeq' = pubSeq + 1
    /\ pjob' = [pjob EXCEPT ![self] =
                  [target |-> target, data |-> data, tmp |-> TempName(pubSeq + 1)]]
    /\ ppc' = [ppc EXCEPT ![self] = "create"]

\* fetch_and_save_album_art(search_term) is called
FetchCall(self) ==
    /\ fpc[self] \in {"idle", "done"}
    /\ fetches < MaxFetches
    /\ fetches' = fetches + 1
    /\ fbefore' = [fbefore EXCEPT ![self] = Published]
    /\ fcalls' = [fcalls EXCEPT ![self] = {}]
    /\ \E search_term \in FetchTerms : fterm' = [fterm EXCEPT ![self] = search_term]
    /\ fpc' = [fpc EXCEPT ![self] = "cache_get"]
    /\ fresult' = [fresult EXCEPT ![self] = NoResult]
    /\ ptouched' = [ptouched EXCEPT ![self] = {}]
    /\ UNCHANGED <<cacheVars, fsVars, ppc, pjob, pbuf, pubSeq, fhit, fsrc, fetchRest>>

\* cached = image_cache.get(search_term); if cached:
FetchCacheGet(self) ==
    /\ fpc[self] = "cache_get"
    /\ LET res == cache_get(Store, fterm[self], now)
       IN  /\ rows' = res.rows
           /\ files' = res.files
           /\ fhit' = [fhit EXCEPT ![self] = res.ret]
           /\ fpc' = [fpc EXCEPT ![self] = AfterCacheGet(res.ret)]
    /\ now' = now + 1
    /\ UNCHANGED <<nextId, last, fsVars, pubVars, fterm, fsrc, fresult, fetches, fbefore, fcalls, fetchRest>>

\* shutil.copy(cached['file_path'], IMAGE_PATH): the source is opened, then
\* the destination is opened for writing, which truncates it in place.
FetchCopyOpen(self) ==
    /\ fpc[self] = "copy"
    /\ path_exists(files, fhit[self][1].file_path)
    /\ fsrc' = [fsrc EXCEPT ![self] = files[fhit[self][1].file_path]]
    /\ LET fs == OpenWrite(Fs, IMAGE_PATH, now)
       IN  dir' = fs.dir /\ inodes' = fs.inodes
    /\ ptouched' = [ptouched EXCEPT ![self] = @ \cup {IMAGE_PATH}]
    /\ fpc' = [fpc EXCEPT ![self] = "copy_write"]
    /\ UNCHANGED <<cacheVars, ppc, pjob, pbuf, pubSeq, fterm, fhit, fresult, fetches, fbefore, fcalls,
                   fetchRest>>

\* shutil.copy, continued: the next chunk is written to the destination; after
\* the last one, save_metadata_atomic(cached['metadata']) is called.
FetchCopyWrite(self) ==
    /\ fpc[self] = "copy_write"
    /\ fsrc[self] # <<>>
    /\ LET fs == AppendTo(Fs, IMAGE_PATH, <<Head(fsrc[self])>>, now)
       IN  dir' = fs.dir /\ inodes' = fs.inodes
    /\ fsrc' = [fsrc EXCEPT ![self] = Tail(@)]
    /\ IF Len(fsrc[self]) = 1
       THEN /\ StartPublish(self, METADATA_PATH, MetaText(fhit[self][1].metadata))
            /\ fpc' = [fpc EXCEPT ![self] = "meta_wait"]
            /\ now' = now + 1
       ELSE UNCHANGED <<ppc, pjob, pubSeq, fpc, now>>
    /\ UNCHANGED <<cacheData, pbuf, ptouched, fterm, fhit, fresult, fetches, fbefore,
                   fcalls, fetchRest>>

\* api_cached = get_cached_api_response(search_term); if api_cached: return
\* download_and_save_from_cache(api_cached, search_term)
FetchApiCache(self) ==
    /\ fpc[self] = "search"
    /\ LET api_cached == get_cached_api_response(api_cache, fterm[self], now)
       IN  /\ fpc' = [fpc EXCEPT ![self] = AfterApiCache(api_cached)]
           /\ fcalls' = [fcalls EXCEPT ![self] =
                           @ \cup (IF api_cached # None THEN {"api_cache_hit"} ELSE {})]
    /\ UNCHANGED <<cacheVars, fsVars, pubVars, fterm, fhit, fsrc, fresult, fetches,
                   fbefore, fetchRest>>

\* The providers are asked; a result is found or not: if not result: return
\* {"success": False, ...}; otherwise cache_api_response(search_term, result)
FetchSearch(self) ==
    /\ fpc[self] = "provider"
    /\ \E found \in BOOLEAN :
         /\ fpc' = [fpc EXCEPT ![self] = AfterSearch(found)]
         /\ fresult' = [fresult EXCEPT ![self] = IF found THEN @ ELSE NotFound]
         /\ fcalls' = [fcalls EXCEPT ![self] =
                         @ \cup (IF found THEN {"search_provider"}
                                 ELSE {"search_provider", "no_result"})]
         /\ api_cache' = IF found
                         THEN cache_api_response(api_cache, fterm[self],
                                                 ProviderResult(fterm[self]), now)
                         ELSE api_cache
    /\ UNCHANGED <<cacheVars, fsVars, pubVars, fterm, fhit, fsrc, fetches, fbefore,
                   fetchRestButApi>>

\* download_and_save: img_data = download_image(artwork_url); the image is
\* decoded, converted, resized and re-encoded into img_bytes.
FetchDownload(self) ==
    /\ fpc[self] = "download"
    /\ fpc' = [fpc EXCEPT ![self] = "put"]
    /\ fcalls' = [fcalls EXCEPT ![self] = @ \cup {"download_image"}]
    /\ UNCHANGED <<cacheVars, fsVars, pubVars, fterm, fhit, fsrc, fresult, fetches, fbefore,
                   fetchRest>>

\* cache_path = image_cache.put(search_term, img_bytes, metadata, artwork_url);
\* save_image_atomic_from_bytes(img_bytes) is called.
FetchPut(self) ==
    /\ fpc[self] = "put"
    /\ LET res == cache_put(Store, fterm[self], ImageBytes(fterm[self]),
                            ProviderMeta(fterm[self]), ProviderUrl(fterm[self]), now)
       IN  /\ rows' = res.rows
           /\ files' = res.files
           /\ nextId' = res.nextId
    /\ now' = now + 1
    /\ StartPublish(self, IMAGE_PATH, ImageBytes(fterm[self]))
    /\ fpc' = [fpc EXCEPT ![self] = "image_wait"]
    /\ fcalls' = [fcalls EXCEPT ![self] = @ \cup {"image_cache.put"}]
    /\ UNCHANGED <<last, fsVars, pbuf, ptouched, fterm, fhit, fsrc, fresult, fetches, fbefore,
                   fetchRest>>

\* save_image_atomic_from_bytes has returned; save_metadata_atomic(metadata)
\* is called.
FetchPublishMetadata(self) ==
    /\ fpc[self] = "image_wait"
    /\ ppc[self] = "idle"
    /\ StartPublish(self, METADATA_PATH, MetaText(ProviderMeta(fterm[self])))
    /\ fpc' = [fpc EXCEPT ![self] = "meta_wait"]
    /\ UNCHANGED <<cacheVars, fsVars, pbuf, ptouched, fterm, fhit, fsrc, fresult, fetches, fbefore, fcalls,
                   fetchRest>>

\* save_metadata_atomic has returned: return {"success": True, ...}
FetchReturn(self) ==
    /\ fpc[self] = "meta_wait"
    /\ ppc[self] = "idle"
    /\ fresult' = [fresult EXCEPT ![self] = Success]
    /\ fpc' = [fpc EXCEPT ![self] = "done"]
    /\ UNCHANGED <<cacheVars, fsVars, pubVars, fterm, fhit, fsrc, fetches, fbefore, fcalls, fetchRest>>

\* The statement a handler is at raises (a network error, an undecodable
\* image, a full disk, an unencodable character): the except clauses of
\* download_and_save and fetch_and_save_album_art return {"success": False,
\* ...}. A temporary file the handler had created stays (delete=False).
FetchRaise(self) ==
    /\ fpc[self] \in {"copy", "copy_write", "provider", "download", "put",
                      "image_wait", "meta_wait"}
    /\ fpc[self] \in {"image_wait", "meta_wait"} => ppc[self] # "idle"
    /\ fresult' = [fresult EXCEPT ![self] = Failure]
    /\ fpc' = [fpc EXCEPT ![self] = "done"]
    /\ ppc' = [ppc EXCEPT ![self] = "idle"]
    /\ pjob' = [pjob EXCEPT ![self] = NoJob]
    /\ pbuf' = [pbuf EXCEPT ![self] = <<>>]
    /\ UNCHANGED <<cacheVars, fsVars, pubSeq, ptouched, fterm, fhit, fsrc, fetches, fbefore, fcalls,
                   fetchRest>>

----------------------------------------------------------------------------
(* ImageLoader._monitor_files, the display's background thread             *)

\* What _load_metadata returns when the file is missing or is not JSON.
DefaultMetadata == [title |-> <<"Ready">>]

\* The variables a loader step leaves alone besides those it names.
monitorRest == <<cacheVars, lookupVars, pubVars, fetchVars, retryVars, renderVars,
    auxVars>>

\* if os.path.exists(IMAGE_PATH): current_mtime = os.path.getmtime(IMAGE_PATH);
\* if current_mtime > self.last_image_mtime: self.last_image_mtime = current_mtime
MonitorPoll ==
    /\ rpc = "poll"
    /\ path_exists(dir, IMAGE_PATH)
    /\ inodes[dir[IMAGE_PATH]].mtime > last_image_mtime
    /\ last_image_mtime' = inodes[dir[IMAGE_PATH]].mtime
    /\ rpc' = "pil_open"
    /\ UNCHANGED <<fsVars, rfile, rseen, mimage, mmeta, queue, monitorRest>>

\* pil_image = PILImage.open(IMAGE_PATH): the file is opened and its header
\* read; a file with no bytes raises, and the loader goes back to sleep.
MonitorPilOpen ==
    /\ rpc = "pil_open"
    /\ IF inodes[dir[IMAGE_PATH]].data = <<>>
       THEN /\ rseen' = [path |-> IMAGE_PATH, data |-> <<>>]
            /\ rpc' = "poll"
            /\ UNCHANGED rfile
       ELSE /\ rfile' = [k \in {"pil"} |-> [path |-> IMAGE_PATH, ino |-> dir[IMAGE_PATH]]]
            /\ rpc' = "extract"
            /\ UNCHANGED rseen
    /\ UNCHANGED <<fsVars, last_image_mtime, mimage, mmeta, queue, monitorRest>>

\* dominant_colors = extract_dominant_colors(pil_image, num_colors=3): the
\* pixels are read from the open file; a decoding error is caught inside.
MonitorExtract ==
    /\ rpc = "extract"
    /\ rseen' = [path |-> IMAGE_PATH, data |-> inodes[rfile["pil"].ino].data]
    /\ rfile' = <<>>
    /\ LET fs == Release(Fs, {})
       IN  dir' = fs.dir /\ inodes' = fs.inodes
    /\ rpc' = "load_image"
    /\ UNCHANGED <<last_image_mtime, mimage, mmeta, queue, monitorRest>>

\* image = self._load_and_scale_image(IMAGE_PATH): pygame.image.load opens the
\* path again and reads it; bytes that are no whole image raise, and the
\* loader goes back to sleep.
MonitorLoadImage ==
    /\ rpc = "load_image"
    /\ LET data == inodes[dir[IMAGE_PATH]].data
       IN  /\ rseen' = [path |-> IMAGE_PATH, data |-> data]
           /\ IF Complete(data)
              THEN mimage' = data[1][1][2] /\ rpc' = "load_metadata"
              ELSE UNCHANGED mimage /\ rpc' = "poll"
    /\ UNCHANGED <<fsVars, rfile, last_image_mtime, mmeta, queue, monitorRest>>

\* metadata = self._load_metadata()
MonitorLoadMetadata ==
    /\ rpc = "load_metadata"
    /\ mmeta' = IF path_exists(dir, METADATA_PATH)
                   /\ Complete(inodes[dir[METADATA_PATH]].data)
                THEN json_loads(inodes[dir[METADATA_PATH]].data[1][1])
                ELSE DefaultMetadata
    /\ rpc' = "enqueue"
    /\ UNCHANGED <<fsVars, rfile, rseen, last_image_mtime, mimage, queue, monitorRest>>

\* self.queue.put({'image': image, ..., 'metadata': metadata, ...}); then
\* time.sleep(check_interval)
MonitorEnqueue ==
    /\ rpc = "enqueue"
    /\ queue' = Append(queue, [image |-> mimage, metadata |-> mmeta])
    /\ rpc' = "poll"
    /\ UNCHANGED <<fsVars, rfile, rseen, last_image_mtime, mimage, mmeta, monitorRest>>

NextFetch ==
    \/ \E self \in Handlers :
          \/ FetchCall(self)
          \/ FetchCacheGet(self)
          \/ FetchCopyOpen(self)
          \/ FetchCopyWrite(self)
          \/ FetchApiCache(self)
          \/ FetchSearch(self)
          \/ FetchDownload(self)
          \/ FetchPut(self)
          \/ FetchPublishMetadata(self)
          \/ FetchReturn(self)
          \/ FetchRaise(self)
          \/ PubCreate(self)
          \/ PubWrite(self)
          \/ PubFlush(self)
          \/ PubFsync(self)
          \/ PubMove(self)
    \/ MonitorPoll
    \/ MonitorPilOpen
    \/ MonitorExtract
    \/ MonitorLoadImage
    \/ MonitorLoadMetadata
    \/ MonitorEnqueue

SpecFetch == InitFetch /\ [][NextFetch]_vars

----------------------------------------------------------------------------
(* The display: run_display's loop, a frame in two parts, with the         *)
(* ImageLoader thread of above, the clock and the server (SpecRender)      *)

\* What load_fallback_image returns.
FallbackImage == <<"fallback">>

\* The n-th image the server publishes.
ImageTerm(n) == <<ToString(n)>>

\* str.upper() on the status words.
StatusUpper(word) ==
    CASE word = "running" -> "RUNNING"
      [] word = "paused" -> "PAUSED"
      [] word = "stopped" -> "STOPPED"
      [] word = "Paused" -> "PAUSED"
      [] OTHER -> word

\* The words the routes hand to write_status.
StatusWords == { "RUNNING", "PAUSED", "STOPPED" }

\* A publisher function as a whole: temp file, write, flush, fsync, rename.
save_atomic(fs, tmp, target, data, t) ==
    Release(Rename(Fsync(AppendTo(OpenWrite(fs, tmp, t), tmp, data, t), tmp),
                   tmp, target),
            Held)

\* The read without .upper() (a mutant of get_display_status).
get_display_status_as_written ==
    IF path_exists(dir, STATUS_FILE)
    THEN inodes[dir[STATUS_FILE]].data[1]
    ELSE "RUNNING"

\* get_display_status()
get_display_status ==
    IF path_exists(dir, STATUS_FILE)
    THEN StatusUpper(inodes[dir[STATUS_FILE]].data[1])
    ELSE "RUNNING"

\* progress = min(time_elapsed / self.duration, 1.0), as the fraction
\* MinElapsed / TransitionDuration.
MinElapsed(time_elapsed) ==
    IF time_elapsed < TransitionDuration THEN time_elapsed ELSE TransitionDuration

\* _ease_in_out(t) = t * t * (3.0 - 2.0 * t) for t = n / d, as a fraction of
\* denominator d^3: its numerator.
ease_in_out(n, d) == n * n * (3 * d - 2 * n)

\* A completion test that wants more than 1.0 (the mutant of is_complete).
is_complete_strict(time_elapsed) ==
    ease_in_out(MinElapsed(time_elapsed), TransitionDuration)
        > TransitionDuration * TransitionDuration * TransitionDuration

\* is_complete = progress >= 1.0
is_complete(time_elapsed) ==
    ease_in_out(MinElapsed(time_elapsed), TransitionDuration)
        >= TransitionDuration * TransitionDuration * TransitionDuration

\* A test that starts a transition for any new content (the mutant of
\* MayStart).
MayStartAlways(new_content, transitioning) == new_content # None

\* if new_content and not transition_manager.is_transitioning
MayStart(new_content, transitioning) == new_content # None /\ ~transitioning

\* The variables a step of the display or of its surroundings leaves alone
\* besides those it names.
renderRest == <<cacheData, lookupVars, readerVars, fetchVars, retryVars, ppc, pjob, pbuf,
                ptouched,
    auxVars>>

InitRender ==
    /\ NoAux
    /\ NoLookups /\ NoFs /\ NoPublishers /\ NoFetches /\ NoRetry
    /\ rows = {} /\ files = <<>> /\ nextId = 1 /\ now = 1
    /\ last = [op |-> "none", term |-> <<>>, payload |-> <<>>, ret |-> None,
               evicted |-> <<>>, total |-> 0, pre |-> {},
               prev |-> [op |-> "none", term |-> <<>>, payload |-> <<>>,
                         ret |-> None, total |-> 0]]
    /\ rpc = "poll" /\ rfile = <<>> /\ rseen = <<>>
    /\ NoMonitor
    /\ dpc = "poll"
    /\ is_transitioning = FALSE
    /\ transition_start_time = 0
    /\ tm_current_image = None
    /\ next_image = None
    /\ current_image = FallbackImage
    /\ current_metadata = DefaultMetadata
    /\ status = "unread"
    /\ ticks = 0
    /\ lost = <<>>
    /\ restarted = FALSE
    /\ frame = NoFrame

\* The clock advances.
ClockTick ==
    /\ ticks < MaxTicks
    /\ ticks' = ticks + 1
    /\ UNCHANGED <<now, fsVars, pubSeq, monitorVars, dpc, is_transitioning,
                   transition_start_time, tm_current_image, next_image, current_image,
                   current_metadata, status, lost, restarted, frame, renderRest>>

\* The server publishes a new image: save_image_atomic_from_bytes(img_bytes)
ServerPublishImage ==
    /\ pubSeq < MaxServed
    /\ pubSeq' = pubSeq + 1
    /\ LET fs == save_atomic(Fs, TempName(pubSeq + 1), IMAGE_PATH,
                             ImageBytes(ImageTerm(pubSeq + 1)), now)
       IN  dir' = fs.dir /\ inodes' = fs.inodes
    /\ now' = now + 1
    /\ UNCHANGED <<monitorVars, renderVars, renderRest>>

\* The server serves /pause, /resume or /stop: write_status(word)
ServerWriteStatus ==
    /\ pubSeq < MaxServed
    /\ pubSeq' = pubSeq + 1
    /\ \E word \in StatusWords :
         LET fs == save_atomic(Fs, TempName(pubSeq + 1), STATUS_FILE,
                               <<StatusUpper(word)>>, now)
         IN  dir' = fs.dir /\ inodes' = fs.inodes
    /\ UNCHANGED <<now, monitorVars, dpc, is_transitioning,
                   transition_start_time, tm_current_image, next_image, current_image,
                   current_metadata, status, ticks, lost, restarted, frame, renderRest>>

\* new_content = image_loader.get_new_content(); if new_content and not
\* transition_manager.is_transitioning: transition_manager.start_transition(
\* current_image, new_content['image']); current_metadata = new_content['metadata']
RenderPoll ==
    /\ dpc = "poll"
    /\ LET new_content == IF queue = <<>> THEN None ELSE Some(Head(queue))
       IN  /\ queue' = IF queue = <<>> THEN queue ELSE Tail(queue)
           /\ IF MayStart(new_content, is_transitioning)
              THEN /\ tm_current_image' = current_image
                   /\ next_image' = new_content[1].image
                   /\ is_transitioning' = TRUE
                   /\ transition_start_time' = ticks
                   /\ current_metadata' = new_content[1].metadata
                   /\ restarted' = (restarted \/ is_transitioning)
                   /\ UNCHANGED lost
              ELSE /\ lost' = IF new_content = None THEN lost
                              ELSE Append(lost, new_content[1])
                   /\ UNCHANGED <<tm_current_image, next_image, is_transitioning,
                                  transition_start_time, current_metadata, restarted>>
    /\ dpc' = "draw"
    /\ UNCHANGED <<now, fsVars, pubSeq, last_image_mtime, mimage, mmeta, current_image,
                   status, ticks, frame, renderRest>>

\* status = get_display_status(); if status == 'RUNNING': if
\* transition_manager.is_transitioning: get_transition_surface(); if
\* is_complete: current_image = transition_manager.next_image.copy()
\* ... pygame.display.flip(); clock.tick(FPS)
RenderDraw ==
    /\ dpc = "draw"
    /\ status' = get_display_status
    /\ LET time_elapsed == ticks - transition_start_time
           handled == get_display_status = "RUNNING" /\ is_transitioning
           complete == handled /\ is_complete(time_elapsed)
       IN  /\ is_transitioning' = IF complete THEN FALSE ELSE is_transitioning
           /\ current_image' = IF complete THEN next_image ELSE current_image
           /\ frame' = [status |-> get_display_status,
                        transitioning |-> is_transitioning,
                        elapsed |-> IF is_transitioning THEN time_elapsed ELSE 0,
                        complete |-> complete]
    /\ dpc' = "poll"
    /\ UNCHANGED <<now, fsVars, pubSeq, monitorVars, transition_start_time,
                   tm_current_image, next_image, current_metadata, ticks, lost, restarted,
                   renderRest>>

NextRender ==
    \/ ClockTick
    \/ ServerPublishImage
    \/ ServerWriteStatus
    \/ MonitorPoll
    \/ MonitorPilOpen
    \/ MonitorExtract
    \/ MonitorLoadImage
    \/ MonitorLoadMetadata
    \/ MonitorEnqueue
    \/ RenderPoll
    \/ RenderDraw

SpecRender == InitRender /\ [][NextRender]_vars

----------------------------------------------------------------------------
(* The Retry Executor: retry_with_backoff(...)(func), one call of wrapper   *)
(* (SpecRetry)                                                             *)

\* Failures of the transport: no connection, no answer in time.
NetworkErrors == { "ConnectionError", "Timeout" }

\* The subclasses of requests.RequestException a wrapped function raises:
\* the network errors, a bad HTTP status (raise_for_status), a URL that does
\* not validate, a body that does not decode.
RequestExceptions ==
    NetworkErrors \cup { "HTTPError", "MissingSchema", "ContentDecodingError" }

\* What else a wrapped function raises.
OtherExceptions == { "ValueError" }

Exceptions == RequestExceptions \cup OtherExceptions

\* except exceptions as e, with exceptions = (requests.RequestException,)
Caught(class) == class \in RequestExceptions

\* retry_with_backoff's delays are multiples of a second; 1 is 1.0 s.
Delays == { 1, 2 }

\* A test one iteration late (the mutant of IsLastAttempt).
IsLastAttemptLate(a, m) == a = m

\* if attempt == max_attempts - 1
IsLastAttempt(a, m) == a = m - 1

\* A delay that grows by a second (the mutant of NextDelay).
NextDelayAdd(d, e) == IF e THEN d + 1 ELSE d

\* if exponential: delay *= 2
NextDelay(d, e) == IF e THEN d * 2 ELSE d

Returned(value) == [kind |-> "return", value |-> value]
Raised(e) == [kind |-> "raise", value |-> e]

\* The wrapper's call returned value; it raised e.
HasReturned(value) == outcome # <<>> /\ outcome.kind = "return" /\ outcome.value = value
HasRaised(e) == outcome # <<>> /\ outcome.kind = "raise" /\ outcome.value = e

\* The variables a wrapper step leaves alone.
NotRetry == <<cacheVars, lookupVars, fsVars, pubVars, readerVars, fetchVars, monitorVars,
             renderVars,
    auxVars>>

\* wrapper is called: delay = initial_delay, and the loop starts.
InitRetry ==
    /\ NoAux
    /\ NoLookups /\ NoFs /\ NoPublishers /\ NoReader /\ NoFetches /\ NoMonitor
    /\ NoRender
    /\ rows = {} /\ files = <<>> /\ nextId = 1 /\ now = 1
    /\ last = [op |-> "none", term |-> <<>>, payload |-> <<>>, ret |-> None,
               evicted |-> <<>>, total |-> 0, pre |-> {},
               prev |-> [op |-> "none", term |-> <<>>, payload |-> <<>>,
                         ret |-> None, total |-> 0]]
    /\ max_attempts \in 0..MaxAttempts
    /\ initial_delay \in Delays
    /\ exponential \in BOOLEAN
    /\ wpc = "try"
    /\ attempt = 0
    /\ delay = initial_delay
    /\ calls = 0
    /\ raised = <<>>
    /\ slept = <<>>
    /\ outcome = <<>>

\* try: return func(*args, **kwargs)
RetryReturn ==
    /\ wpc = "try"
    /\ attempt < max_attempts
    /\ calls' = calls + 1
    /\ outcome' = Returned(<<"value", calls + 1>>)
    /\ wpc' = "done"
    /\ UNCHANGED <<max_attempts, initial_delay, exponential, attempt, delay, raised,
                   slept, NotRetry>>

\* func raises e: an exception the except clause does not catch leaves the
\* wrapper; one it catches is re-raised on the last attempt, and otherwise
\* the wrapper goes on to sleep.
RetryRaise ==
    /\ wpc = "try"
    /\ attempt < max_attempts
    /\ calls' = calls + 1
    /\ \E class \in Exceptions :
         LET e == [class |-> class, call |-> calls + 1]
         IN  /\ raised' = Append(raised, e)
             /\ IF ~Caught(class) \/ IsLastAttempt(attempt, max_attempts)
                THEN outcome' = Raised(e) /\ wpc' = "done"
                ELSE outcome' = outcome /\ wpc' = "sleep"
    /\ UNCHANGED <<max_attempts, initial_delay, exponential, attempt, delay, slept,
                   NotRetry>>

\* time.sleep(delay); if exponential: delay *= 2; and the next iteration
RetrySleep ==
    /\ wpc = "sleep"
    /\ slept' = Append(slept, delay)
    /\ delay' = NextDelay(delay, exponential)
    /\ attempt' = attempt + 1
    /\ wpc' = "try"
    /\ UNCHANGED <<max_attempts, initial_delay, exponential, calls, raised, outcome,
                   NotRetry>>

\* The loop is over: return None
RetryFallThrough ==
    /\ wpc = "try"
    /\ attempt >= max_attempts
    /\ outcome' = Returned(None)
    /\ wpc' = "done"
    /\ UNCHANGED <<max_attempts, initial_delay, exponential, attempt, delay, calls,
                   raised, slept, NotRetry>>

NextRetry == RetryReturn \/ RetryRaise \/ RetrySleep \/ RetryFallThrough

SpecRetry == InitRetry /\ [][NextRetry]_vars

----------------------------------------------------------------------------
(* SpecMatch: find_best_itunes_match applied to a result list              *)

\* 'limit': 5 of search_itunes: the longest result list.
MaxResults == 2

\* Strings are sequences of characters.
DarkSide == <<"D", "a", "r", "k", " ", "S", "i", "d", "e">>
DarkSideLower == <<"d", "a", "r", "k", " ", "s", "i", "d", "e">>
DarkSideOfTheMoon == DarkSide \o <<" ", "o", "f", " ", "t", "h", "e", " ",
                                   "M", "o", "o", "n">>
Side == <<"S", "i", "d", "e">>
Dark == <<"D", "a", "r", "k">>
PinkFloyd == <<"P", "i", "n", "k", " ", "F", "l", "o", "y", "d">>
Money == <<"M", "o", "n", "e", "y">>

\* The search terms the matcher is given.
Queries == { DarkSide, DarkSideLower }

\* The results of a provider response: a key the response leaves out is None.
\* The title "Side" comes with the artist "Dark" only.
Candidates ==
    { c \in [trackName : { Some(DarkSide), Some(DarkSideOfTheMoon), Some(Side) },
              artistName : { None, Some(Dark), Some(PinkFloyd) },
              collectionName : { None, Some(Money) },
              artworkUrl100 : { None, Some("url") }] :
        c.trackName = Some(Side) => c.artistName = Some(Dark) }

ResultLists == UNION { [1..n -> Candidates] : n \in 1..MaxResults }

\* result.get(key, ''): the value, or the empty string when the key is absent.
GetOrEmpty(value) == IF value = None THEN <<>> ELSE value[1]

\* Python's s in t on strings: s occurs in t as a contiguous run (the empty
\* string occurs in every string).
In(s, t) == \E i \in 0..(Len(t) - Len(s)) : SubSeq(t, i + 1, i + Len(s)) = s

\* The title points without the f"{artist_name} {track_name}" alternative (a
\* mutant of TitleScore).
TitleScoreTrackOnly(search_lower, artist_name, track_name) ==
    IF search_lower = track_name THEN 100
    ELSE IF In(search_lower, track_name) \/ In(track_name, search_lower) THEN 50
    ELSE 0

\* server_app.py:306-309: 100 for an exact title (alone or after the artist),
\* else 50 for a title containing or contained in the term.
TitleScore(search_lower, artist_name, track_name) ==
    IF \/ search_lower = track_name
       \/ search_lower = artist_name \o <<" ">> \o track_name
    THEN 100
    ELSE IF In(search_lower, track_name) \/ In(track_name, search_lower) THEN 50
    ELSE 0

\* if result.get('artworkUrl100'): a key that is present with a value that
\* is not the empty string.
HasArtwork(result) ==
    IF result.artworkUrl100 = None THEN FALSE ELSE result.artworkUrl100[1] # ""

\* What each 'score +=' statement of the loop body adds for one result.
Points(result, search) ==
    LET search_lower == Lower(search)
        track_name == Lower(GetOrEmpty(result.trackName))
        artist_name == Lower(GetOrEmpty(result.artistName))
        album_name == Lower(GetOrEmpty(result.collectionName))
    IN  [title |-> TitleScore(search_lower, artist_name, track_name),
         artist |-> IF In(search_lower, artist_name) \/ In(artist_name, search_lower)
                    THEN 30 ELSE 0,
         album |-> IF In(search_lower, album_name) \/ In(album_name, search_lower)
                   THEN 20 ELSE 0,
         artwork |-> IF HasArtwork(result) THEN 10 ELSE 0]

\* The score the loop body gives one result.
Score(result, search) ==
    LET points == Points(result, search)
    IN  points.title + points.artist + points.album + points.artwork

\* The last of the results of maximal score (a mutant of find_best_itunes_match).
find_last_best_match(rs, search) ==
    LET i == CHOOSE j \in 1..Len(rs) :
                 /\ \A k \in 1..Len(rs) : Score(rs[k], search) <= Score(rs[j], search)
                 /\ \A k \in (j + 1)..Len(rs) : Score(rs[k], search) < Score(rs[j], search)
    IN  rs[i]

\* max(scored_results, key=lambda x: x[0])[1]: max returns the first of the
\* items of maximal key.
find_best_itunes_match(rs, search) ==
    LET i == CHOOSE j \in 1..Len(rs) :
                 /\ \A k \in 1..Len(rs) : Score(rs[k], search) <= Score(rs[j], search)
                 /\ \A k \in 1..(j - 1) : Score(rs[k], search) < Score(rs[j], search)
    IN  rs[i]

NotMatch == <<cacheVars, lookupVars, fsVars, pubVars, readerVars, fetchVars,
              monitorVars, retryVars, renderVars, stuck, raceVars, apiVars,
              providerVars, overlayVars>>

AtRest ==
    /\ NoLookups /\ NoFs /\ NoPublishers /\ NoReader /\ NoFetches /\ NoMonitor
    /\ NoRetry /\ NoRender
    /\ rows = {} /\ files = <<>> /\ nextId = 1 /\ now = 1
    /\ last = [op |-> "none", term |-> <<>>, payload |-> <<>>, ret |-> None,
               evicted |-> <<>>, total |-> 0, pre |-> {},
               prev |-> [op |-> "none", term |-> <<>>, payload |-> <<>>,
                         ret |-> None, total |-> 0]]

InitMatch ==
    /\ AtRest
    /\ stuck = {} /\ NoRace /\ NoApi /\ NoProviders /\ NoOverlays
    /\ itunes_results \in ResultLists
    /\ itunes_term \in Queries
    /\ itunes_best = None
    /\ itunes_scores = <<>>

\* result = find_best_itunes_match(data['results'], search_term)
Match ==
    /\ itunes_best = None
    /\ itunes_best' = Some(find_best_itunes_match(itunes_results, itunes_term))
    /\ itunes_scores' = [i \in 1..Len(itunes_results) |->
                             Points(itunes_results[i], itunes_term)]
    /\ UNCHANGED <<itunes_results, itunes_term, NotMatch>>

NextMatch == Match

SpecMatch == InitMatch /\ [][NextMatch]_vars

----------------------------------------------------------------------------
(* SpecScore: find_best_itunes_match applied to a response of one result,  *)
(* for results whose fields are present, absent or empty.                  *)

DarkSideUpper == <<"D", "A", "R", "K", " ", "S", "I", "D", "E">>

ScoreQueries == { DarkSide, DarkSideUpper, Money }

\* A key of a result is absent (None), present and empty, or present with text.
ScoreCandidates ==
    [trackName : { None, Some(<<>>), Some(DarkSide), Some(DarkSideOfTheMoon),
                   Some(Side), Some(PinkFloyd) },
     artistName : { None, Some(<<>>), Some(Dark), Some(PinkFloyd) },
     collectionName : { None, Some(<<>>), Some(DarkSideOfTheMoon), Some(Money) },
     artworkUrl100 : { None, Some(""), Some("url") }]

InitScore ==
    /\ AtRest
    /\ stuck = {} /\ NoRace /\ NoApi /\ NoProviders /\ NoOverlays
    /\ itunes_results \in [1..1 -> ScoreCandidates]
    /\ itunes_term \in ScoreQueries
    /\ itunes_best = None
    /\ itunes_scores = <<>>

SpecScore == InitScore /\ [][NextMatch]_vars

----------------------------------------------------------------------------
(* SpecStatus: the control file. write_status as the routes and the main   *)
(* block call it, and get_display_status as the render loop calls it.      *)

\* write_status calls per behaviour.
MaxStatusWrites == 3

\* What the control file holds when the server starts: nothing, or a word a
\* person or an earlier program left in it, in any letter case.
FoundWords == { "running", "Paused", "STOPPED" }

NotStatus == <<cacheData, lookupVars, readerVars, fetchVars, monitorVars, retryVars,
               ppc, pjob, pbuf, ptouched, dpc, is_transitioning,
               transition_start_time, tm_current_image, next_image, current_image,
               current_metadata, ticks, lost, restarted, frame, auxVars>>

InitStatus ==
    /\ NoAux
    /\ NoLookups /\ NoPublishers /\ NoReader /\ NoFetches /\ NoMonitor /\ NoRetry
    /\ NoRender
    /\ rows = {} /\ files = <<>> /\ nextId = 1 /\ now = 1
    /\ last = [op |-> "none", term |-> <<>>, payload |-> <<>>, ret |-> None,
               evicted |-> <<>>, total |-> 0, pre |-> {},
               prev |-> [op |-> "none", term |-> <<>>, payload |-> <<>>,
                         ret |-> None, total |-> 0]]
    /\ \/ dir = <<>> /\ inodes = <<>>
       \/ \E word \in FoundWords :
            LET fs == AppendTo(OpenWrite([dir |-> <<>>, inodes |-> <<>>],
                                         STATUS_FILE, 0),
                               STATUS_FILE, <<word>>, 0)
            IN  dir = fs.dir /\ inodes = fs.inodes

\* write_status(status) from the main block ('RUNNING'), update_display
\* ('RUNNING', after a successful fetch), pause_display ('PAUSED'),
\* resume_display ('RUNNING') and stop_display ('STOPPED').
WriteStatus ==
    /\ pubSeq < MaxStatusWrites
    /\ pubSeq' = pubSeq + 1
    /\ now' = now + 1
    /\ \E word \in StatusWords :
         LET fs == save_atomic(Fs, TempName(pubSeq + 1), STATUS_FILE,
                               <<StatusUpper(word)>>, now)
         IN  dir' = fs.dir /\ inodes' = fs.inodes
    /\ UNCHANGED <<status, NotStatus>>

\* write_status whose try block raises: the except clause prints the error.
\* The temporary file was not created, or it was written and stays under its
\* own name because shutil.move failed.
WriteStatusFails ==
    /\ pubSeq < MaxStatusWrites
    /\ pubSeq' = pubSeq + 1
    /\ now' = now + 1
    /\ \E word \in StatusWords, created \in BOOLEAN :
         LET tmp == TempName(pubSeq + 1)
             fs == IF created
                   THEN Fsync(AppendTo(OpenWrite(Fs, tmp, now), tmp,
                                       <<StatusUpper(word)>>, now), tmp)
                   ELSE Fs
         IN  dir' = fs.dir /\ inodes' = fs.inodes
    /\ UNCHANGED <<status, NotStatus>>

\* status = get_display_status() of a frame of run_display
ReadStatus ==
    /\ status' = get_display_status
    /\ UNCHANGED <<dir, inodes, pubSeq, now, NotStatus>>

NextStatus == WriteStatus \/ WriteStatusFails \/ ReadStatus

SpecStatus == InitStatus /\ [][NextStatus]_vars

----------------------------------------------------------------------------
(* SpecFaults: the store driven by one caller at a time, as Spec, in a     *)
(* cache directory where the removal of one of the files fails.            *)

\* The file that cannot be removed is the one of the term "ab".
StuckSets == { { FilePath(get_cache_key(<<"a", "b">>)) } }

InitFaults ==
    /\ AtRest
    /\ NoMatch /\ NoRace /\ NoApi /\ NoProviders /\ NoOverlays
    /\ stuck \in StuckSets

SpecFaults == InitFaults /\ [][Next]_vars

----------------------------------------------------------------------------
(* SpecRace: put, get and clear called by concurrent request threads on    *)
(* one ImageCache. A step is a file operation or a committed transaction;  *)
(* the eviction pass of a put and the file loop of a clear are one step    *)
(* each.                                                                   *)

Threads == { "t1", "t2" }

\* Cache calls per behaviour.
MaxRaceCalls == 3

RaceTerms == { <<"a", "b">>, <<"c">> }
RacePayloads == { p \in Payloads : Len(p.image) \in {5, 9} }

NoCall == [op |-> "none", term |-> <<>>, payload |-> <<>>, entries |-> {}]

NotRace == <<last, lookupVars, fsVars, pubVars, readerVars, fetchVars, monitorVars,
             retryVars, renderVars, matchVars, stuck, apiVars, providerVars,
             overlayVars>>

InitRace ==
    /\ AtRest
    /\ NoMatch /\ stuck = {} /\ NoApi /\ NoProviders /\ NoOverlays
    /\ cpc = [t \in Threads |-> "idle"]
    /\ cjob = [t \in Threads |-> NoCall]
    /\ ccalls = 0

\* A request thread calls put, get or clear.
RaceCall(t) ==
    /\ cpc[t] = "idle"
    /\ ccalls < MaxRaceCalls
    /\ ccalls' = ccalls + 1
    /\ \/ \E search_term \in RaceTerms, p \in RacePayloads :
            /\ cjob' = [cjob EXCEPT ![t] = [op |-> "put", term |-> search_term,
                                            payload |-> p, entries |-> {}]]
            /\ cpc' = [cpc EXCEPT ![t] = "write"]
       \/ \E search_term \in RaceTerms :
            /\ cjob' = [cjob EXCEPT ![t] = [op |-> "get", term |-> search_term,
                                            payload |-> <<>>, entries |-> {}]]
            /\ cpc' = [cpc EXCEPT ![t] = "get"]
       \/ /\ cjob' = [cjob EXCEPT ![t] = [NoCall EXCEPT !.op = "clear"]]
          /\ cpc' = [cpc EXCEPT ![t] = "select"]
    /\ UNCHANGED <<rows, files, nextId, now, NotRace>>

\* put: with open(file_path, 'wb') as f: f.write(image_data)
PutWrite(t) ==
    /\ cpc[t] = "write"
    /\ files' = WriteFile(files, FilePath(get_cache_key(cjob[t].term)),
                          cjob[t].payload.image)
    /\ cpc' = [cpc EXCEPT ![t] = "insert"]
    /\ UNCHANGED <<rows, nextId, now, cjob, ccalls, NotRace>>

\* put: INSERT OR REPLACE INTO cache ...; conn.commit()
PutInsert(t) ==
    /\ cpc[t] = "insert"
    /\ LET cache_key == get_cache_key(cjob[t].term)
           p == cjob[t].payload
       IN  rows' = InsertOrReplace(rows, nextId, cache_key, FilePath(cache_key),
                                   p.metadata, p.artwork_url, Len(p.image), now)
    /\ nextId' = nextId + 1
    /\ now' = now + 1
    /\ cpc' = [cpc EXCEPT ![t] = "cleanup"]
    /\ UNCHANGED <<files, cjob, ccalls, NotRace>>

\* put: self._cleanup_if_needed(); return str(file_path)
PutCleanup(t) ==
    /\ cpc[t] = "cleanup"
    /\ LET cleaned == cleanup_if_needed(rows, files)
       IN  rows' = cleaned.rows /\ files' = cleaned.files
    /\ cpc' = [cpc EXCEPT ![t] = "idle"]
    /\ cjob' = [cjob EXCEPT ![t] = NoCall]
    /\ UNCHANGED <<nextId, now, ccalls, NotRace>>

\* get(search_term)
RaceGet(t) ==
    /\ cpc[t] = "get"
    /\ LET res == cache_get(Store, cjob[t].term, now)
       IN  rows' = res.rows /\ files' = res.files
    /\ now' = now + 1
    /\ cpc' = [cpc EXCEPT ![t] = "idle"]
    /\ cjob' = [cjob EXCEPT ![t] = NoCall]
    /\ UNCHANGED <<nextId, ccalls, NotRace>>

\* clear: cursor.execute("SELECT file_path FROM cache"); entries = fetchall()
ClearSelect(t) ==
    /\ cpc[t] = "select"
    /\ cjob' = [cjob EXCEPT ![t].entries = { r.file_path : r \in rows }]
    /\ cpc' = [cpc EXCEPT ![t] = "remove"]
    /\ UNCHANGED <<rows, files, nextId, now, ccalls, NotRace>>

\* clear: for (file_path,) in entries: if os.path.exists(file_path):
\* os.remove(file_path)
ClearRemove(t) ==
    /\ cpc[t] = "remove"
    /\ files' = [p \in { q \in DOMAIN files :
                           q \notin cjob[t].entries \/ os_remove(files, q) = files }
                 |-> files[p]]
    /\ cpc' = [cpc EXCEPT ![t] = "delete"]
    /\ UNCHANGED <<rows, nextId, now, cjob, ccalls, NotRace>>

\* clear: cursor.execute("DELETE FROM cache"); conn.commit()
ClearDelete(t) ==
    /\ cpc[t] = "delete"
    /\ rows' = {}
    /\ cpc' = [cpc EXCEPT ![t] = "idle"]
    /\ cjob' = [cjob EXCEPT ![t] = NoCall]
    /\ UNCHANGED <<files, nextId, now, ccalls, NotRace>>

NextRace ==
    \E t \in Threads :
        \/ RaceCall(t)
        \/ PutWrite(t) \/ PutInsert(t) \/ PutCleanup(t)
        \/ RaceGet(t)
        \/ ClearSelect(t) \/ ClearRemove(t) \/ ClearDelete(t)

SpecRace == InitRace /\ [][NextRace]_vars

----------------------------------------------------------------------------
(* SpecApi: get_cached_api_response and cache_api_response called by       *)
(* concurrent request threads, one statement per step, and the clock.      *)

\* Calls per behaviour.
MaxApiCalls == 2

\* The last clock value.
MaxApiTime == 3

ApiTerms == Terms

\* The response the n-th call stores for a term.
ApiData(search_term, n) == [metadata |-> <<search_term, n>>, artwork_url |-> "u"]

NoApiCall == [op |-> "none", term |-> <<>>, data |-> <<>>, seen |-> <<>>, at |-> 0,
              ret |-> None, raised |-> FALSE, len |-> 0, removed |-> None]

NotApi == <<cacheData, lookupVars, fsVars, pubVars, readerVars, fetchVars,
            monitorVars, retryVars, renderVars, matchVars, stuck, raceVars,
            providerVars, overlayVars>>

\* The cache is empty, or holds a response stored before the behaviour starts.
InitApi ==
    /\ AtRest
    /\ NoMatch /\ stuck = {} /\ NoRace /\ NoProviders /\ NoOverlays
    /\ api_cache \in { <<>>, ApiSet(<<>>, get_cache_key(<<"a", "b">>),
                                     ApiData(<<"a", "b">>, 0), 0) }
    /\ apc = [t \in Threads |-> "idle"]
    /\ ajob = [t \in Threads |-> NoApiCall]
    /\ acalls = 0

\* A request thread calls cache_api_response or get_cached_api_response.
ApiCall(t) ==
    /\ apc[t] = "idle"
    /\ acalls < MaxApiCalls
    /\ acalls' = acalls + 1
    /\ \E search_term \in ApiTerms :
         \/ /\ ajob' = [ajob EXCEPT ![t] =
                           [NoApiCall EXCEPT !.op = "cache_api_response",
                                             !.term = search_term,
                                             !.data = ApiData(search_term, acalls + 1)]]
            /\ apc' = [apc EXCEPT ![t] = "set"]
         \/ /\ ajob' = [ajob EXCEPT ![t] =
                           [NoApiCall EXCEPT !.op = "get_cached_api_response",
                                             !.term = search_term]]
            /\ apc' = [apc EXCEPT ![t] = "check"]
    /\ UNCHANGED <<api_cache, now, NotApi>>

\* cache_api_response: _api_cache[cache_key] = (data, time.time())
StoreSet(t) ==
    /\ apc[t] = "set"
    /\ api_cache' = ApiSet(api_cache, get_cache_key(ajob[t].term), ajob[t].data, now)
    /\ apc' = [apc EXCEPT ![t] = "trim"]
    /\ UNCHANGED <<ajob, acalls, now, NotApi>>

\* cache_api_response: if len(_api_cache) > 100: oldest_key = min(...);
\* del _api_cache[oldest_key]; the call returns.
StoreTrim(t) ==
    /\ apc[t] = "trim"
    /\ api_cache' = ApiTrim(api_cache)
    /\ ajob' = [ajob EXCEPT ![t].seen = api_cache,
                            ![t].len = Len(api_cache'),
                            ![t].removed = IF Len(api_cache') < Len(api_cache)
                                           THEN Some(api_cache[ApiOldest(api_cache)])
                                           ELSE None]
    /\ apc' = [apc EXCEPT ![t] = "idle"]
    /\ UNCHANGED <<acalls, now, NotApi>>

\* get_cached_api_response: if cache_key in _api_cache
GetCheck(t) ==
    /\ apc[t] = "check"
    /\ IF ApiIndex(api_cache, get_cache_key(ajob[t].term)) # 0
       THEN /\ apc' = [apc EXCEPT ![t] = "read"]
            /\ ajob' = ajob
       ELSE /\ apc' = [apc EXCEPT ![t] = "idle"]
            /\ ajob' = [ajob EXCEPT ![t].seen = api_cache, ![t].at = now]
    /\ UNCHANGED <<api_cache, acalls, now, NotApi>>

\* get_cached_api_response: cached_data, timestamp = _api_cache[cache_key]
\* (KeyError when another thread has deleted the key since the test)
GetRead(t) ==
    /\ apc[t] = "read"
    /\ IF ApiIndex(api_cache, get_cache_key(ajob[t].term)) # 0
       THEN /\ apc' = [apc EXCEPT ![t] = "compare"]
            /\ ajob' = [ajob EXCEPT ![t].seen = api_cache]
       ELSE /\ apc' = [apc EXCEPT ![t] = "idle"]
            /\ ajob' = [ajob EXCEPT ![t].seen = api_cache, ![t].at = now,
                                    ![t].raised = TRUE]
    /\ UNCHANGED <<api_cache, acalls, now, NotApi>>

\* get_cached_api_response: if time.time() - timestamp < cache_duration:
\* return cached_data; return None
GetCompare(t) ==
    /\ apc[t] = "compare"
    /\ ajob' = [ajob EXCEPT ![t].at = now,
                            ![t].ret = get_cached_api_response(ajob[t].seen,
                                                               ajob[t].term, now)]
    /\ apc' = [apc EXCEPT ![t] = "idle"]
    /\ UNCHANGED <<api_cache, acalls, now, NotApi>>

\* Time passes.
ApiTick ==
    /\ now < MaxApiTime
    /\ now' = now + 1
    /\ UNCHANGED <<api_cache, apc, ajob, acalls, NotApi>>

NextApi ==
    \/ \E t \in Threads :
          \/ ApiCall(t)
          \/ StoreSet(t) \/ StoreTrim(t)
          \/ GetCheck(t) \/ GetRead(t) \/ GetCompare(t)
    \/ ApiTick

SpecApi == InitApi /\ [][NextApi]_vars

----------------------------------------------------------------------------
(* SpecProviders: the provider stage of fetch_and_save_album_art with both *)
(* providers enabled. spotify_client.search and search_itunes are each     *)
(* wrapped by retry_with_backoff; the wrapper's steps are those of         *)
(* SpecRetry.                                                              *)

\* @retry_with_backoff(max_attempts=3, initial_delay=1.0) on SpotifyClient.search
SpotifyAttempts == 3
SpotifyDelay == 1

\* @retry_with_backoff(max_attempts=4, initial_delay=2.0) on search_itunes
ItunesAttempts == 4
ItunesDelay == 2

NotProviders == <<cacheVars, lookupVars, fsVars, pubVars, readerVars, fetchVars,
                  monitorVars, renderVars, matchVars, stuck, raceVars, apiVars,
                  overlayVars>>

\* result = spotify_client.search(search_term) is called.
InitProviders ==
    /\ NoLookups /\ NoFs /\ NoPublishers /\ NoReader /\ NoFetches /\ NoMonitor
    /\ NoRender
    /\ rows = {} /\ files = <<>> /\ nextId = 1 /\ now = 1
    /\ last = [op |-> "none", term |-> <<>>, payload |-> <<>>, ret |-> None,
               evicted |-> <<>>, total |-> 0, pre |-> {},
               prev |-> [op |-> "none", term |-> <<>>, payload |-> <<>>,
                         ret |-> None, total |-> 0]]
    /\ NoMatch /\ stuck = {} /\ NoRace /\ NoApi /\ NoOverlays
    /\ provider = "spotify"
    /\ plog = <<>>
    /\ max_attempts = SpotifyAttempts
    /\ initial_delay = SpotifyDelay
    /\ exponential = TRUE
    /\ wpc = "try"
    /\ attempt = 0
    /\ delay = SpotifyDelay
    /\ calls = 0
    /\ raised = <<>>
    /\ slept = <<>>
    /\ outcome = <<>>

\* The body of SpotifyClient.search runs: it returns a track, or None when
\* there is no token or no item, or an exception of the token request or of
\* the search request is caught by the body's own 'except Exception' clauses,
\* which print it and make the body return None.
SpotifySearch ==
    /\ provider = "spotify"
    /\ wpc = "try"
    /\ attempt < max_attempts
    /\ calls' = calls + 1
    /\ wpc' = "done"
    /\ \/ /\ outcome' = Returned(<<"value", calls + 1>>)
          /\ plog' = Append(plog, [provider |-> "spotify", calls |-> calls + 1,
                                   error |-> ""])
       \/ /\ outcome' = Returned(None)
          /\ \E error \in Exceptions \cup {""} :
               plog' = Append(plog, [provider |-> "spotify", calls |-> calls + 1,
                                     error |-> error])
    /\ UNCHANGED <<max_attempts, initial_delay, exponential, attempt, delay, raised,
                   slept, provider, NotProviders>>

\* if not result and config.get('music.itunes.enabled', True): result =
\* search_itunes(search_term)
ItunesCall ==
    /\ provider = "spotify"
    /\ HasReturned(None)
    /\ provider' = "itunes"
    /\ max_attempts' = ItunesAttempts
    /\ initial_delay' = ItunesDelay
    /\ exponential' = TRUE
    /\ wpc' = "try"
    /\ attempt' = 0
    /\ delay' = ItunesDelay
    /\ calls' = 0
    /\ raised' = <<>>
    /\ slept' = <<>>
    /\ outcome' = <<>>
    /\ UNCHANGED <<plog, NotProviders>>

\* The wrapper of search_itunes, whose body lets its exceptions out.
ItunesReturn == provider = "itunes" /\ RetryReturn
ItunesRaise == provider = "itunes" /\ RetryRaise
ItunesSleep == provider = "itunes" /\ RetrySleep

NextProviders ==
    SpotifySearch \/ ItunesCall \/ ItunesReturn \/ ItunesRaise \/ ItunesSleep

SpecProviders == InitProviders /\ [][NextProviders]_vars

----------------------------------------------------------------------------
(* SpecLoaderRuns: SpecFetch with the loader thread kept running: the      *)
(* while self.running loop of _monitor_files goes on taking its steps.     *)

MonitorStep ==
    \/ MonitorPoll
    \/ MonitorPilOpen
    \/ MonitorExtract
    \/ MonitorLoadImage
    \/ MonitorLoadMetadata
    \/ MonitorEnqueue

SpecLoaderRuns == InitFetch /\ [][NextFetch]_vars /\ WF_vars(MonitorStep)

----------------------------------------------------------------------------
(* SpecOverlays: the second half of a frame of run_display, from           *)
(* get_display_status to render_all_overlays with the weather overlay, and *)
(* the loader's poll, each recording the blocking calls its thread makes.  *)

\* overlays.weather.update_interval (1800 seconds by default), in clock ticks.
UpdateInterval == 2

\* Clock readings per behaviour.
MaxOverlayTime == 6

\* overlays.weather: enabled, and whether api_key and location are set.
WeatherConfigs == [enabled : BOOLEAN, api_key : BOOLEAN, location : BOOLEAN]

Call(thread, kind, what) == [thread |-> thread, kind |-> kind, what |-> what]

\* if time.time() - self.weather_last_update > update_interval: _fetch_weather(),
\* which returns before the request when api_key or location is empty.
FetchesWeather(t) ==
    /\ weather_config.enabled
    /\ t - weather_last_update > UpdateInterval
    /\ weather_config.api_key /\ weather_config.location

NotOverlays == <<cacheData, lookupVars, pubVars, readerVars, fetchVars, monitorVars,
                 retryVars, dpc, is_transitioning, transition_start_time,
                 tm_current_image, next_image, current_image, current_metadata,
                 ticks, lost, restarted, frame, matchVars, stuck, raceVars, apiVars,
                 providerVars>>

\* run_display has started; time.time() is far above update_interval.
InitOverlays ==
    /\ NoLookups /\ NoPublishers /\ NoReader /\ NoFetches /\ NoMonitor /\ NoRetry
    /\ NoMatch /\ stuck = {} /\ NoRace /\ NoApi /\ NoProviders
    /\ rows = {} /\ files = <<>> /\ nextId = 1
    /\ last = [op |-> "none", term |-> <<>>, payload |-> <<>>, ret |-> None,
               evicted |-> <<>>, total |-> 0, pre |-> {},
               prev |-> [op |-> "none", term |-> <<>>, payload |-> <<>>,
                         ret |-> None, total |-> 0]]
    /\ now = UpdateInterval + 1
    /\ \E word \in StatusWords :
         LET fs == save_atomic([dir |-> <<>>, inodes |-> <<>>], TempName(1),
                               STATUS_FILE, <<word>>, 1)
         IN  dir = fs.dir /\ inodes = fs.inodes
    /\ dpc = "draw"
    /\ is_transitioning = FALSE
    /\ transition_start_time = 0
    /\ tm_current_image = None
    /\ next_image = None
    /\ current_image = FallbackImage
    /\ current_metadata = DefaultMetadata
    /\ status = "unread"
    /\ ticks = 0
    /\ lost = <<>>
    /\ restarted = FALSE
    /\ frame = NoFrame
    /\ weather_config \in WeatherConfigs
    /\ weather_data = None
    /\ weather_last_update = 0
    /\ io_calls = {}

\* status = get_display_status(); if status == 'RUNNING': ...
\* overlay_renderer.render_all_overlays(screen, current_metadata), whose
\* _render_weather calls _fetch_weather: response = requests.get(url,
\* timeout=10), which answers or raises; an exception is printed and
\* weather_last_update stays.
OverlayFrame ==
    /\ status' = get_display_status
    /\ IF get_display_status = "RUNNING" /\ FetchesWeather(now)
       THEN /\ io_calls' = io_calls \cup
                           { Call("render", "file", "open(STATUS_FILE)"),
                             Call("render", "network", "requests.get") }
            /\ \/ /\ weather_data' = Some("weather")
                  /\ weather_last_update' = now
               \/ UNCHANGED <<weather_data, weather_last_update>>
       ELSE /\ io_calls' = io_calls \cup { Call("render", "file", "open(STATUS_FILE)") }
            /\ UNCHANGED <<weather_data, weather_last_update>>
    /\ UNCHANGED <<now, fsVars, weather_config, NotOverlays>>

\* The loader thread: if os.path.exists(IMAGE_PATH): ...
LoaderPoll ==
    /\ io_calls' = io_calls \cup { Call("loader", "file", "os.path.exists(IMAGE_PATH)") }
    /\ Call("loader", "file", "os.path.exists(IMAGE_PATH)") \notin io_calls
    /\ UNCHANGED <<now, fsVars, status, weather_config, weather_data,
                   weather_last_update, NotOverlays>>

\* The server writes a status.
OverlayWriteStatus ==
    /\ \E word \in StatusWords :
         LET fs == save_atomic(Fs, TempName(1), STATUS_FILE, <<word>>, 1)
         IN  dir' = fs.dir /\ inodes' = fs.inodes
    /\ UNCHANGED <<now, status, overlayVars, NotOverlays>>

\* time.time() advances.
OverlayTick ==
    /\ now < MaxOverlayTime
    /\ now' = now + 1
    /\ UNCHANGED <<fsVars, status, overlayVars, NotOverlays>>

NextOverlays == OverlayFrame \/ LoaderPoll \/ OverlayWriteStatus \/ OverlayTick

SpecOverlays == InitOverlays /\ [][NextOverlays]_vars

----------------------------------------------------------------------------
(* SpecUpdate: the /update route, one request at a time: the search term   *)
(* is stripped and tested, fetch_and_save_album_art runs as in SpecFetch,  *)
(* and write_status('RUNNING') follows a success.                          *)

\* The values of data.get('search', '') the route is sent.
RawTerms == { <<>>, <<" ">>, <<"c">>, <<" ", "a", "b", " ">> }

\* str.strip() for blanks.
Strip(s) ==
    LET kept == { i \in 1..Len(s) : s[i] # " " }
    IN  IF kept = {} THEN <<>>
        ELSE SubSeq(s, CHOOSE i \in kept : \A j \in kept : i <= j,
                       CHOOSE i \in kept : \A j \in kept : j <= i)

\* What the status file holds.
StatusContent == inodes[dir[STATUS_FILE]].data

TermRequired == [success |-> FALSE, message |-> "Search term is required"]

\* The server is up, the cache is empty, and the status file holds what the
\* main block or a route wrote last.
InitUpdate ==
    /\ NoAux
    /\ rows = {} /\ files = <<>> /\ nextId = 1 /\ now = 2
    /\ last = [op |-> "none", term |-> <<>>, payload |-> <<>>, ret |-> None,
               evicted |-> <<>>, total |-> 0, pre |-> {},
               prev |-> [op |-> "none", term |-> <<>>, payload |-> <<>>,
                         ret |-> None, total |-> 0]]
    /\ NoLookups
    /\ rpc = "poll" /\ rfile = <<>> /\ rseen = <<>>
    /\ \E word \in StatusWords :
         LET fs == save_atomic([dir |-> <<>>, inodes |-> <<>>], "tmp0",
                               STATUS_FILE, <<StatusUpper(word)>>, 1)
         IN  dir = fs.dir /\ inodes = fs.inodes
    /\ ppc = [p \in Publishers |-> "idle"]
    /\ pjob = [p \in Publishers |-> NoJob]
    /\ pbuf = [p \in Publishers |-> <<>>]
    /\ pubSeq = 0
    /\ ptouched = [p \in Publishers |-> {}]
    /\ fpc = [p \in Publishers |-> "idle"]
    /\ fterm = [p \in Publishers |-> <<>>]
    /\ fhit = [p \in Publishers |-> None]
    /\ fsrc = [p \in Publishers |-> <<>>]
    /\ fresult = [p \in Publishers |-> NoResult]
    /\ fetches = 0
    /\ fbefore = [p \in Publishers |-> <<>>]
    /\ fcalls = [p \in Publishers |-> {}]
    /\ NoMonitor
    /\ NoRetry /\ NoRender

\* search_term = data.get('search', '').strip(); if not search_term: return
\* jsonify({"success": False, ...})
UpdateEmpty(self) ==
    /\ fpc[self] = "idle"
    /\ fetches < MaxFetches
    /\ \E raw \in RawTerms :
         /\ Strip(raw) = <<>>
         /\ fterm' = [fterm EXCEPT ![self] = Strip(raw)]
    /\ fetches' = fetches + 1
    /\ fresult' = [fresult EXCEPT ![self] = TermRequired]
    /\ fcalls' = [fcalls EXCEPT ![self] = {}]
    /\ UNCHANGED <<cacheVars, fsVars, pubVars, fpc, fhit, fsrc, fbefore, fetchRest>>

\* result = fetch_and_save_album_art(search_term)
UpdateFetch(self) ==
    /\ fpc[self] = "idle"
    /\ \E raw \in RawTerms :
         /\ Strip(raw) # <<>>
         /\ FetchCall(self)
         /\ fterm'[self] = Strip(raw)

\* if result['success']: write_status('RUNNING'); return jsonify(result)
UpdateWriteStatus(self) ==
    /\ fpc[self] = "done"
    /\ fresult[self].success
    /\ LET fs == save_atomic(Fs, TempName(pubSeq + 1), STATUS_FILE,
                             <<StatusUpper("RUNNING")>>, now)
       IN  dir' = fs.dir /\ inodes' = fs.inodes
    /\ pubSeq' = pubSeq + 1
    /\ fpc' = [fpc EXCEPT ![self] = "idle"]
    /\ UNCHANGED <<cacheVars, ppc, pjob, pbuf, ptouched, fterm, fhit, fsrc, fresult,
                   fetches, fbefore, fcalls, fetchRest>>

\* write_status('RUNNING') raises inside (the temporary file cannot be
\* created, written or moved): except Exception prints the error, and the
\* route returns jsonify(result) all the same.
UpdateWriteStatusFails(self) ==
    /\ fpc[self] = "done"
    /\ fresult[self].success
    /\ fpc' = [fpc EXCEPT ![self] = "idle"]
    /\ UNCHANGED <<cacheVars, fsVars, pubVars, fterm, fhit, fsrc, fresult,
                   fetches, fbefore, fcalls, fetchRest>>

\* The fetch did not succeed: return jsonify(result)
UpdateReturnFailure(self) ==
    /\ fpc[self] = "done"
    /\ ~fresult[self].success
    /\ fpc' = [fpc EXCEPT ![self] = "idle"]
    /\ UNCHANGED <<cacheVars, fsVars, pubVars, fterm, fhit, fsrc, fresult,
                   fetches, fbefore, fcalls, fetchRest>>

NextUpdate ==
    \E self \in Handlers :
        \/ UpdateEmpty(self)
        \/ UpdateFetch(self)
        \/ FetchCacheGet(self)
        \/ FetchCopyOpen(self)
        \/ FetchCopyWrite(self)
        \/ FetchApiCache(self)
        \/ FetchSearch(self)
        \/ FetchDownload(self)
        \/ FetchPut(self)
        \/ FetchPublishMetadata(self)
        \/ FetchReturn(self)
        \/ FetchRaise(self)
        \/ PubCreate(self)
        \/ PubWrite(self)
        \/ PubFlush(self)
        \/ PubFsync(self)
        \/ PubMove(self)
        \/ UpdateWriteStatus(self)
        \/ UpdateWriteStatusFails(self)
        \/ UpdateReturnFailure(self)

SpecUpdate == InitUpdate /\ [][NextUpdate]_vars

----------------------------------------------------------------------------
(* SpecSuspended: the display of SpecRender, started while the status file *)
(* holds PAUSED or STOPPED from an earlier /pause or /stop.                *)

InitSuspended ==
    /\ NoAux
    /\ NoLookups /\ NoPublishers /\ NoFetches /\ NoRetry
    /\ rows = {} /\ files = <<>> /\ nextId = 1 /\ now = 2
    /\ last = [op |-> "none", term |-> <<>>, payload |-> <<>>, ret |-> None,
               evicted |-> <<>>, total |-> 0, pre |-> {},
               prev |-> [op |-> "none", term |-> <<>>, payload |-> <<>>,
                         ret |-> None, total |-> 0]]
    /\ rpc = "poll" /\ rfile = <<>> /\ rseen = <<>>
    /\ \E word \in StatusWords \ {"RUNNING"} :
         LET fs == save_atomic([dir |-> <<>>, inodes |-> <<>>], "tmp0",
                               STATUS_FILE, <<StatusUpper(word)>>, 1)
         IN  dir = fs.dir /\ inodes = fs.inodes
    /\ NoMonitor
    /\ dpc = "poll"
    /\ is_transitioning = FALSE
    /\ transition_start_time = 0
    /\ tm_current_image = None
    /\ next_image = None
    /\ current_image = FallbackImage
    /\ current_metadata = DefaultMetadata
    /\ status = "unread"
    /\ ticks = 0
    /\ lost = <<>>
    /\ restarted = FALSE
    /\ frame = NoFrame

\* The main loop runs a frame after a frame until the window closes.
RenderStep == RenderPoll \/ RenderDraw

\* Both threads keep running: the loader's while self.running loop and the
\* frames of run_display.
SpecSuspended ==
    /\ InitSuspended
    /\ [][NextRender]_vars
    /\ WF_vars(MonitorStep)
    /\ WF_vars(RenderStep)

----------------------------------------------------------------------------
(* Claims about the Artwork Cache Store (Spec)                             *)

\* The row of cache_key in rs, as a set (empty when there is none).
RowOf(rs, cache_key) == SelectByKey(rs, cache_key)

\* C1: whenever a put has returned (its cleanup pass has completed), after any
\* sequence of put, get and clear, the sum of file_size over all rows is at
\* most the configured maximum size.
C1_TotalSizeWithinMax ==
    last.op = "put" => get_total_size(rows) <= MaxSizeBytes

\* A put whose cleanup pass evicted some rows and kept others.
C1_Witness ==
    /\ last.op = "put"
    /\ last.total > MaxSizeBytes
    /\ last.evicted # <<>>
    /\ rows # {}

\* C2: when the cleanup pass of a put evicts entries, no retained entry has a
\* last_accessed older than that of an entry evicted in that pass.
C2_RetainedAreMostRecent ==
    last.op = "put" =>
        \A i \in 1..Len(last.evicted) : \A r \in rows :
            ~(r.last_accessed < last.evicted[i].last_accessed)

\* A pass that evicted an entry created after an entry it retained: the
\* retained one had been looked up since.
C2_Witness ==
    /\ last.op = "put"
    /\ \E i \in 1..Len(last.evicted) : \E r \in rows :
          /\ r.created_at < last.evicted[i].created_at
          /\ r.last_accessed > last.evicted[i].last_accessed

\* The entry a put of payload p under search_term stores, as get returns it.
StoredEntry(search_term, p) ==
    [file_path |-> FilePath(get_cache_key(search_term)),
     metadata |-> p.metadata, artwork_url |-> p.artwork_url]

\* A get that directly follows a put of the same term up to letter case.
GetRightAfterPut ==
    /\ last.op = "get"
    /\ last.prev.op = "put"
    /\ Lower(last.term) = Lower(last.prev.term)

\* The last get returned the entry the put before it stored, and raised its
\* access_count by exactly one.
ReturnsJustStored ==
    /\ last.ret = Some(StoredEntry(last.prev.term, last.prev.payload))
    /\ last.ret[1].file_path = last.prev.ret
    /\ \E o \in RowOf(last.pre, get_cache_key(last.term)) :
       \E r \in RowOf(rows, get_cache_key(last.term)) :
          r.access_count = o.access_count + 1

\* C3 as claimed: put followed immediately by get of the same term up to
\* letter case returns the just-stored entry and raises its access_count by
\* exactly one, for every image size and every prior cache content.
C3_AsClaimed == GetRightAfterPut => ReturnsJustStored

\* The put's own entry survives its cleanup pass: the pass does not run
\* (total after the insert <= max) or the image is at most 80% of max.
SurvivesCleanup(total, image) ==
    \/ total <= MaxSizeBytes
    \/ Len(image) * TargetDen <= MaxSizeBytes * TargetNum

\* C3 (amended): put followed immediately by get of the same term up to letter
\* case returns the just-stored entry and raises its access_count by exactly
\* one, unless the put took the total above the maximum with an image larger
\* than 80% of the maximum (the cleanup pass then evicts the new entry too).
C3_PutThenGet ==
    (GetRightAfterPut /\ SurvivesCleanup(last.prev.total, last.prev.payload.image))
        => ReturnsJustStored

\* A hit right after a put that was typed in another letter case and whose
\* cleanup pass had run.
C3_Witness ==
    /\ GetRightAfterPut
    /\ last.term # last.prev.term
    /\ last.prev.total > MaxSizeBytes
    /\ last.ret # None

\* C8: when an entry's backing file has been deleted out-of-band, get of its
\* term returns None and deletes the stale row: entry_count decreases by
\* exactly one and every other row is unchanged.
C8_StaleRowPurged ==
    \A o \in last.pre :
        (/\ last.op = "get"
         /\ o.search_key = get_cache_key(last.term)
         /\ ~path_exists(files, o.file_path))
        => /\ last.ret = None
           /\ rows = last.pre \ {o}
           /\ get_stats(rows).entry_count = get_stats(last.pre).entry_count - 1

\* A get of an entry whose file was just deleted out-of-band, with other rows
\* in the store.
C8_Witness ==
    /\ last.op = "get"
    /\ last.prev.op = "unlink"
    /\ \E o \in last.pre :
          /\ o.search_key = get_cache_key(last.term)
          /\ o.file_path = last.prev.ret
    /\ Cardinality(last.pre) >= 2

\* C9: there is at most one row per normalized key, and after a put of a key
\* that was present the row of that key holds the latest file content,
\* metadata, artwork URL and size and the access_count the key had before.
C9_UniqueLastWriteWins ==
    /\ \A r, q \in rows : r.search_key = q.search_key => r = q
    /\ last.op = "put" =>
         \A o \in RowOf(last.pre, get_cache_key(last.term)) :
         \A r \in RowOf(rows, get_cache_key(last.term)) :
            /\ r.metadata = json_dumps(last.payload.metadata)
            /\ r.artwork_url = last.payload.artwork_url
            /\ r.file_size = Len(last.payload.image)
            /\ r.file_path = last.ret
            /\ path_exists(files, r.file_path)
            /\ files[r.file_path] = last.payload.image
            /\ r.access_count = o.access_count

\* A put over a present key that had been looked up, with other content.
C9_Witness ==
    /\ last.op = "put"
    /\ \E o \in RowOf(last.pre, get_cache_key(last.term)) :
       \E r \in RowOf(rows, get_cache_key(last.term)) :
          /\ o.access_count > 0
          /\ o.metadata # r.metadata
          /\ o.artwork_url # r.artwork_url
          /\ o.file_size # r.file_size

\* C11: after clear() returns the store has no rows (entry_count = 0, total
\* size = 0) and none of the backing files of the entries stored before it
\* remains on disk, whatever the prior cache content.
C11_ClearEmpties ==
    last.op = "clear" =>
       /\ rows = {}
       /\ get_stats(rows).entry_count = 0
       /\ get_stats(rows).total_size = 0
       /\ \A r \in last.pre : ~path_exists(files, r.file_path)

----------------------------------------------------------------------------
(* Claims about concurrent lookups (SpecLookups)                           *)

\* The callers whose UPDATE of cache_key has committed.
Updated(cache_key) ==
    { p \in Procs : lpc[p] \in {"return", "done"}
                    /\ lsel[p] # NoRow
                    /\ get_cache_key(lterm[p]) = cache_key }

\* C10: for any interleaving of N concurrent lookups that hit the same entry,
\* the entry's access_count rises by exactly the number of lookups whose
\* update has committed (N once all have: no lost update), and each lookup
\* returns the entry.
C10_NoLostUpdate ==
    /\ \A r \in rows : r.access_count = Cardinality(Updated(r.search_key))
    /\ \A p \in Procs :
         (lpc[p] = "done" /\ RowOf(rows, get_cache_key(lterm[p])) # {}) =>
            \E r \in rows :
               lret[p] = Some([file_path |-> r.file_path,
                               metadata |-> json_loads(r.metadata),
                               artwork_url |-> r.artwork_url])

\* Every lookup has hit the one entry and returned, and one of them had
\* fetched the row before another's update and updated after it.
C10_Witness ==
    /\ \A p \in Procs : lpc[p] = "done" /\ lret[p] # None
    /\ \A r \in rows : r.access_count = NumLookups
    /\ \E p \in Procs : \E x \in lsel[p] : \E r \in rows :
          x.last_accessed = 1 /\ r.last_accessed = now - 1
          /\ lterm[p] # last.term

----------------------------------------------------------------------------
(* Claims about the Atomic Publisher (SpecPublish)                         *)

\* C4: publish_image, publish_metadata and publish_status write the new
\* content completely to a temporary file in the target's directory and force
\* it to storage before the single rename onto the target, and a reader that
\* opens the target at any step of any interleaving observes a complete
\* content (the previous one or the new one), never a partial one.
C4_AtomicPublish ==
    /\ \A p \in Publishers :
         ppc[p] = "move" =>
            /\ pjob[p].tmp \in DOMAIN dir
            /\ pjob[p].tmp # pjob[p].target
            /\ inodes[dir[pjob[p].tmp]].data = pjob[p].data
            /\ inodes[dir[pjob[p].tmp]].synced = Len(pjob[p].data)
    /\ \A path \in Targets \cap DOMAIN dir : Complete(inodes[dir[path]].data)
    /\ \A k \in DOMAIN rfile : Complete(inodes[rfile[k].ino].data)
    /\ rseen # <<>> => Complete(rseen.data)

\* The reader holds the target open while a publisher has renamed a new
\* version over it and another publisher is half way through its temp file.
C4_Witness ==
    /\ \E k \in DOMAIN rfile :
          /\ dir[rfile[k].path] # rfile[k].ino
          /\ inodes[dir[rfile[k].path]].data # inodes[rfile[k].ino].data
          /\ \E p \in Publishers :
                /\ ppc[p] = "flush"
                /\ pjob[p].target = rfile[k].path
    /\ rseen # <<>>

----------------------------------------------------------------------------
(* Claims about the Retry Executor (SpecRetry)                             *)

\* Every attempt made so far failed with a failure the wrapper catches.
AllCaught == Len(raised) = calls /\ \A i \in 1..Len(raised) : Caught(raised[i].class)

\* C12: the wrapper invokes the operation at most max_attempts times in
\* total, and when every attempt fails with a retryable failure it propagates
\* the failure raised by the last attempt, after exactly max_attempts attempts.
C12_AtMostMaxAttempts ==
    /\ calls <= max_attempts
    /\ (wpc = "done" /\ calls >= 1 /\ AllCaught) =>
          /\ calls = max_attempts
          /\ HasRaised(raised[calls])

\* A policy of three attempts gave up after three network failures.
C12_Witness ==
    /\ wpc = "done"
    /\ max_attempts = 3
    /\ calls = 3
    /\ AllCaught
    /\ HasRaised([class |-> "Timeout", call |-> 3])
    /\ Len(slept) = 2

\* initial_delay * 2^i
RECURSIVE Backoff(_, _)
Backoff(d, i) == IF i = 0 THEN d ELSE 2 * Backoff(d, i - 1)

\* C13: an operation that fails with a retryable failure k times
\* (k < max_attempts) and then succeeds returns its success on attempt k+1;
\* the wrapper has slept exactly k times, the i-th sleep (i = 0..k-1) lasting
\* initial_delay * 2^i when exponential is set and initial_delay otherwise, and
\* it does not sleep after the successful attempt.
C13_SleepsBetweenAttempts ==
    (wpc = "done" /\ outcome.kind = "return" /\ calls >= 1) =>
       LET k == Len(raised)
       IN  /\ k < max_attempts
           /\ calls = k + 1
           /\ HasReturned(<<"value", k + 1>>)
           /\ Len(slept) = k
           /\ \A i \in 0..(k - 1) :
                 slept[i + 1] = IF exponential THEN Backoff(initial_delay, i)
                                ELSE initial_delay

\* Three failures and a success under {max_attempts = 4, initial_delay = 1.0,
\* exponential}: the sleeps were 1.0, 2.0 and 4.0.
C13_Witness ==
    /\ wpc = "done"
    /\ max_attempts = 4 /\ initial_delay = 1 /\ exponential
    /\ Len(raised) = 3
    /\ HasReturned(<<"value", 4>>)
    /\ slept = <<1, 2, 4>>

\* C14: a failure that is not a network-layer error (a decode or validation
\* error) is propagated to the caller at once: the attempt that raised it is
\* the only one, nothing is slept and nothing is retried.
C14_OnlyNetworkErrorsRetried ==
    \A i \in 1..Len(raised) :
        raised[i].class \notin NetworkErrors =>
           /\ i = 1
           /\ calls = 1
           /\ slept = <<>>
           /\ wpc = "done"
           /\ HasRaised(raised[i])

----------------------------------------------------------------------------
(* Claims about the loader's channel and the render loop (SpecRender)      *)

\* C15: the channel from the loader to the render loop holds at most one
\* pending message at any time (a newer message replaces an unconsumed one,
\* so no backlog builds up).
C15_AtMostOnePending == Len(queue) <= 1

\* C16: at most one transition is in flight: start_transition is never
\* invoked while is_transitioning is true.
C16_OneTransitionInFlight == ~restarted

\* New content reached the render loop while a transition was in flight, and
\* the loop started none for it.
C16_Witness ==
    /\ is_transitioning
    /\ lost # <<>>
    /\ next_image # lost[1].image
    /\ ~restarted

\* C17: content that the loader delivers while the render loop is
\* transitioning is not lost: no message is taken off the queue without a
\* transition to it being started.
C17_NothingLost == lost = <<>>

\* C18: with status RUNNING, a frame that finds a transition in flight returns
\* the loop to idle exactly when the elapsed time is >= the transition
\* duration (so the first such frame does), and from that frame on the loop's
\* current image is the transition's next image; until a transition
\* completes the current image is the one it started from.
C18_TransitionCompletes ==
    /\ (dpc = "poll" /\ frame.status = "RUNNING" /\ frame.transitioning) =>
          /\ frame.complete <=> frame.elapsed >= TransitionDuration
          /\ frame.complete <=> ~is_transitioning
    /\ (~is_transitioning /\ next_image # None) => current_image = next_image
    /\ is_transitioning => current_image = tm_current_image

\* A frame has just completed a transition, later than the duration, to the
\* first image published, from the fallback image.
C18_Witness ==
    /\ dpc = "poll"
    /\ frame.status = "RUNNING"
    /\ frame.complete
    /\ frame.elapsed > TransitionDuration
    /\ ~is_transitioning
    /\ tm_current_image = FallbackImage
    /\ current_image = ImageTerm(1)

----------------------------------------------------------------------------
(* Claims about the Fetch Pipeline and the loader (SpecFetch)              *)

\* C5: during every fetch request that changes the current image, a cache hit
\* included, a concurrent reader of the current image file never observes a
\* partially written image: whatever the loader has read of the image file
\* is one whole image.
C5_NoTornRead ==
    (rseen # <<>> /\ rseen.path = IMAGE_PATH) => Complete(rseen.data)

\* The image and the metadata record of a message come from one fetch.
SameFetch(message) == message.metadata = ProviderMeta(message.image)

\* C6: every content message the loader hands to the render loop combines an
\* image and a metadata record that came from the same fetch (the record the
\* loader makes up when no metadata was ever published is let through).
C6_ValidPair ==
    \A i \in 1..Len(queue) :
        SameFetch(queue[i]) \/ queue[i].metadata = DefaultMetadata

\* C7: a fetch request that returns a failure result leaves both published
\* current files exactly as they were before the request, whichever step
\* failed.
C7_FailureLeavesPublished ==
    \A self \in Handlers :
        (fpc[self] = "done" /\ fresult[self] = Failure) => Published = fbefore[self]

\* The request has found the term in the Artwork Cache Store, file and all.
IsHit(self) == fpc[self] \notin {"idle", "cache_get"} /\ fhit[self] # None

\* C19: when the Artwork Cache Store holds an entry with an existing file for
\* the search term, the fetch makes no provider query, no image download and
\* no cache put, and when it returns success it has published that entry's
\* image and metadata; it returns failure only when a step raised.
C19_HitServedFromCache ==
    \A self \in Handlers :
        IsHit(self) =>
           /\ fcalls[self] = {}
           /\ fpc[self] \in {"copy", "copy_write", "meta_wait", "done"}
           /\ fpc[self] = "done" => fresult[self] \in {Success, Failure}
           /\ (fpc[self] = "done" /\ fresult[self] = Success) =>
                 /\ Published[IMAGE_PATH] = files[fhit[self][1].file_path]
                 /\ Published[METADATA_PATH] = MetaText(fhit[self][1].metadata)
                 /\ ptouched[self] = {IMAGE_PATH, METADATA_PATH}

\* A request for a term fetched and published before has returned success
\* from the cache.
C19_Witness ==
    \E self \in Handlers :
        /\ IsHit(self)
        /\ fpc[self] = "done"
        /\ fresult[self] = Success
        /\ fcalls[self] = {}
        /\ Published[IMAGE_PATH] = ImageBytes(fterm[self])
        /\ Published[METADATA_PATH] = MetaText(ProviderMeta(fterm[self]))
        /\ DOMAIN fbefore[self] = {IMAGE_PATH, METADATA_PATH}

\* C20: when both caches miss and no enabled provider returns a candidate,
\* the fetch returns a failure result (NotFound) and performs no image
\* download, no cache put and no publish.
C20_NotFoundChangesNothing ==
    \A self \in Handlers :
        "no_result" \in fcalls[self] =>
           /\ fpc[self] = "done"
           /\ fresult[self] = NotFound
           /\ fhit[self] = None
           /\ fcalls[self] = {"search_provider", "no_result"}
           /\ ptouched[self] = {}
           /\ ppc[self] = "idle"
           /\ Published = fbefore[self]
           /\ RowOf(rows, get_cache_key(fterm[self])) = {}

\* A request found nothing while another term's content was published.
C20_Witness ==
    \E self \in Handlers :
        /\ "no_result" \in fcalls[self]
        /\ fresult[self] = NotFound
        /\ DOMAIN fbefore[self] = {IMAGE_PATH, METADATA_PATH}
        /\ rows # {}


----------------------------------------------------------------------------
(* Claims about candidate selection (SpecMatch)                            *)

\* C21: the result selected has the highest score of the list and, among the
\* results of that score, is the first in provider order; in particular, for
\* the query "Dark Side", of a result that scores 100 for its title "Dark Side"
\* and one that scores 50 for its title "Dark Side of the Moon", the first is
\* the one selected, in either order.
C21_FirstHighestScore ==
    itunes_best # None =>
        /\ \E i \in 1..Len(itunes_results) :
               /\ itunes_best[1] = itunes_results[i]
               /\ \A k \in 1..Len(itunes_results) :
                      Score(itunes_results[k], itunes_term)
                          <= Score(itunes_results[i], itunes_term)
               /\ \A k \in 1..(i - 1) :
                      Score(itunes_results[k], itunes_term)
                          < Score(itunes_results[i], itunes_term)
        /\ \A i, j \in 1..Len(itunes_results) :
               /\ Len(itunes_results) = 2
               /\ itunes_term = DarkSide
               /\ itunes_results[i].trackName = Some(DarkSide)
               /\ Score(itunes_results[i], itunes_term) = 100
               /\ itunes_results[j].trackName = Some(DarkSideOfTheMoon)
               /\ Score(itunes_results[j], itunes_term) = 50
               => itunes_best[1] = itunes_results[i]

\* The title "Dark Side of the Moon" (50) came before "Dark Side" (100), and
\* the second was selected.
C21_Witness ==
    /\ itunes_term = DarkSide
    /\ Len(itunes_results) = 2
    /\ itunes_results[1].trackName = Some(DarkSideOfTheMoon)
    /\ Score(itunes_results[1], itunes_term) = 50
    /\ itunes_results[2].trackName = Some(DarkSide)
    /\ Score(itunes_results[2], itunes_term) = 100
    /\ itunes_best = Some(itunes_results[2])


----------------------------------------------------------------------------
(* Claims about the control file (SpecStatus)                              *)

\* The token a word spells, whatever its letter case.
TokenOf(word) ==
    CASE word \in { "running", "Running", "RUNNING" } -> "RUNNING"
      [] word \in { "paused", "Paused", "PAUSED" } -> "PAUSED"
      [] word \in { "stopped", "Stopped", "STOPPED" } -> "STOPPED"

\* C22: whatever control commands were issued, once a command has written the
\* control file the file holds one of the upper-case tokens RUNNING, PAUSED
\* and STOPPED; the renderer's read gives the token of the word the file
\* holds whatever its letter case, and gives RUNNING when the file is missing.
C22_StatusTokens ==
    /\ path_exists(dir, STATUS_FILE) /\ dir[STATUS_FILE] \in DOMAIN inodes
       /\ inodes[dir[STATUS_FILE]].mtime > 0
       => inodes[dir[STATUS_FILE]].data \in { <<w>> : w \in StatusWords }
    /\ status # "unread" => status \in StatusWords
    /\ get_display_status =
           IF path_exists(dir, STATUS_FILE)
           THEN TokenOf(inodes[dir[STATUS_FILE]].data[1])
           ELSE "RUNNING"

\* A second command wrote PAUSED over what was there and the renderer read it.
C22_Witness ==
    /\ pubSeq > 1
    /\ path_exists(dir, STATUS_FILE)
    /\ inodes[dir[STATUS_FILE]].data = <<"PAUSED">>
    /\ inodes[dir[STATUS_FILE]].mtime > 1
    /\ status = "PAUSED"


----------------------------------------------------------------------------
(* Claims about eviction and failing removals (Spec, SpecFaults)           *)

\* The total size of the image files in the cache directory.
RECURSIVE DiskSize(_)
DiskSize(fs) ==
    IF DOMAIN fs = {} THEN 0
    ELSE LET p == CHOOSE q \in DOMAIN fs : TRUE
         IN  Len(fs[p]) + DiskSize([q \in DOMAIN fs \ {p} |-> fs[q]])

\* C23: after a put has returned (its cleanup pass has completed), the total
\* size of the image files on disk in the cache directory is at most the
\* configured maximum size.
C23_DiskWithinMax ==
    last.op = "put" => DiskSize(files) <= MaxSizeBytes

\* The rows of the store right after the insert of the last put: the ones
\* retained and the ones its cleanup pass evicted.
AfterInsert == rows \cup { last.evicted[i] : i \in 1..Len(last.evicted) }

\* C24: the cleanup pass of a put evicts nothing when the total size after the
\* insert is at most the maximum; otherwise it evicts entries oldest first,
\* none retained being older than one evicted, down to a total of at most 80%
\* of the maximum and no further: with the last evicted entry put back the
\* total would be above 80% of the maximum.
C24_ShortestOldestPrefix ==
    last.op = "put" =>
        LET n == Len(last.evicted)
        IN  /\ last.total = get_total_size(AfterInsert)
            /\ last.total <= MaxSizeBytes => n = 0
            /\ last.total > MaxSizeBytes =>
                 /\ n >= 1
                 /\ \A i, j \in 1..n :
                        i < j => last.evicted[i].last_accessed
                                     <= last.evicted[j].last_accessed
                 /\ \A i \in 1..n : \A r \in rows :
                        last.evicted[i].last_accessed <= r.last_accessed
                 /\ get_total_size(rows) * TargetDen <= MaxSizeBytes * TargetNum
                 /\ (get_total_size(rows) + last.evicted[n].file_size) * TargetDen
                        > MaxSizeBytes * TargetNum

\* A pass that evicted two entries and retained one: with one eviction the total
\* was still above 80% of the maximum.
C24_Witness ==
    /\ last.op = "put"
    /\ last.total > MaxSizeBytes
    /\ Len(last.evicted) = 2
    /\ rows # {}

\* The entries whose file the last put or clear tried to remove and could not:
\* the file is still there.
FailedRemovals ==
    { e \in IF last.op = "put" THEN { last.evicted[i] : i \in 1..Len(last.evicted) }
            ELSE IF last.op = "clear" THEN last.pre
            ELSE {} :
        e.file_path \in stuck /\ path_exists(files, e.file_path) }

\* C26: when the removal of an entry's file fails during the eviction pass of
\* a put or during clear, the operation still returns normally, the entry's row
\* is removed all the same, and the pass goes on: eviction reaches its target
\* and clear removes every other row and file.
C26_FailedRemovalSkipped ==
    FailedRemovals # {} =>
        /\ \A e \in FailedRemovals : e \notin rows
        /\ last.op = "put" =>
             /\ last.ret = FilePath(get_cache_key(last.term))
             /\ get_total_size(rows) * TargetDen <= MaxSizeBytes * TargetNum
        /\ last.op = "clear" =>
             /\ last.ret = None
             /\ rows = {}
             /\ \A r \in last.pre :
                    r.file_path \notin stuck => ~path_exists(files, r.file_path)

\* An eviction pass could not remove the file of the first entry it evicted,
\* and went on to evict a second entry and remove its file.
C26_Witness ==
    /\ last.op = "put"
    /\ Len(last.evicted) >= 2
    /\ last.evicted[1] \in FailedRemovals
    /\ ~path_exists(files, last.evicted[2].file_path)


----------------------------------------------------------------------------
(* Claims about concurrent cache calls (SpecRace)                          *)

\* C25: for every interleaving of concurrent put, get (with the eviction and
\* stale-row purge they run) and clear calls, with no file deleted out of
\* band, once all the calls have completed the file of every row of the index
\* exists on disk.
C25_RowsHaveFiles ==
    (\A t \in Threads : cpc[t] = "idle") =>
        \A r \in rows : path_exists(files, r.file_path)


----------------------------------------------------------------------------
(* Claims about the API-response cache (SpecApi)                           *)

\* C28: when a cache_api_response call returns the API-response cache holds at
\* most the cap (100) entries, and the entry the call removed, if any, is one
\* of the oldest timestamp.
C28_AtMostCap ==
    \A t \in Threads :
        (ajob[t].op = "cache_api_response" /\ apc[t] = "idle") =>
            /\ ajob[t].len <= ApiCacheCap
            /\ ajob[t].removed # None =>
                   \A i \in 1..Len(ajob[t].seen) :
                       ajob[t].removed[1].timestamp <= ajob[t].seen[i].timestamp

\* The entries of a dict that a search term's key names: those stored under a
\* term that differs from it by letter case only.
Matching(cache, search_term) ==
    { i \in 1..Len(cache) : cache[i].key = <<"md5", Lower(search_term)>> }

\* C29: get_cached_api_response never returns an entry whose age (time of the
\* call's clock reading minus the entry's timestamp) is the cache duration or
\* more, and it returns the stored response for a term, matched whatever the
\* letter case, whenever the cache holds one whose age is below the duration.
C29_FreshOrNothing ==
    \A t \in Threads :
        (ajob[t].op = "get_cached_api_response" /\ apc[t] = "idle"
         /\ ~ajob[t].raised) =>
            LET fresh == { i \in Matching(ajob[t].seen, ajob[t].term) :
                             ajob[t].at - ajob[t].seen[i].timestamp < CacheDuration }
            IN  /\ fresh = {} => ajob[t].ret = None
                /\ fresh # {} => \E i \in fresh :
                                     ajob[t].ret = Some(ajob[t].seen[i].data)

\* One get returned the response stored under the term in another letter case,
\* and another returned nothing for an entry as old as the cache duration.
C29_Witness ==
    \E t, u \in Threads :
        /\ apc[t] = "idle" /\ apc[u] = "idle"
        /\ ajob[t].op = "get_cached_api_response"
        /\ ajob[t].term = <<"A", "B">>
        /\ ajob[t].ret = Some(ApiData(<<"a", "b">>, 0))
        /\ ajob[u].op = "get_cached_api_response"
        /\ ajob[u].ret = None
        /\ \E i \in Matching(ajob[u].seen, ajob[u].term) :
               ajob[u].at - ajob[u].seen[i].timestamp = CacheDuration


----------------------------------------------------------------------------
(* Claims about the API-response cache in the pipeline (SpecFetch)         *)

\* C27: a request that misses the Artwork Cache and finds an unexpired entry
\* in the API-response cache asks no provider; it goes on to download the
\* artwork, and when it returns success it has downloaded it, put it in the
\* Artwork Cache and published the image and the metadata.
C27_ApiHitSkipsProviders ==
    \A self \in Handlers :
        "api_cache_hit" \in fcalls[self] =>
            /\ fhit[self] = None
            /\ "search_provider" \notin fcalls[self]
            /\ fpc[self] \in {"download", "put", "image_wait", "meta_wait", "done"}
            /\ fpc[self] \in {"put", "image_wait", "meta_wait"} =>
                   "download_image" \in fcalls[self]
            /\ (fpc[self] = "done" /\ fresult[self] = Success) =>
                   /\ {"download_image", "image_cache.put"} \subseteq fcalls[self]
                   /\ Published = [path \in {IMAGE_PATH, METADATA_PATH} |->
                                      IF path = IMAGE_PATH
                                      THEN ImageBytes(fterm[self])
                                      ELSE MetaText(ProviderMeta(fterm[self]))]

\* A request served from the API-response cache has returned success: the
\* request before it had found the result and failed before the put.
C27_Witness ==
    \E self \in Handlers :
        /\ "api_cache_hit" \in fcalls[self]
        /\ fpc[self] = "done"
        /\ fresult[self] = Success
        /\ RowOf(rows, get_cache_key(fterm[self])) # {}


----------------------------------------------------------------------------
(* Claims about the provider stage (SpecProviders)                         *)

\* C30: the pipeline is through with a provider on a network-layer failure
\* only when the provider's query has been attempted as many times as its
\* retry policy allows: 3 times for Spotify, 4 times for iTunes.
C30_ProvidersRetried ==
    /\ \A i \in 1..Len(plog) :
           (plog[i].provider = "spotify" /\ plog[i].error \in NetworkErrors) =>
               plog[i].calls = SpotifyAttempts
    /\ (provider = "itunes" /\ wpc = "done" /\ outcome.kind = "raise"
        /\ outcome.value.class \in NetworkErrors) =>
           /\ calls = ItunesAttempts
           /\ Len(slept) = ItunesAttempts - 1


----------------------------------------------------------------------------
(* Claims about the scoring of provider results (SpecScore)                *)

\* The field of a candidate as the scoring reads it: lower-cased, and the
\* empty string when the candidate has no such field.
Field(value) == Lower(IF value = None THEN <<>> ELSE value[1])

\* s contains t, as strings.
Contains(s, t) ==
    \E i \in 1..(Len(s) - Len(t) + 1) : SubSeq(s, i, i + Len(t) - 1) = t

Overlap(s, t) == Contains(s, t) \/ Contains(t, s)

\* The score the scoring rule states for a candidate and a query.
StatedScore(candidate, query) ==
    LET q == Lower(query)
        title == Field(candidate.trackName)
        artist == Field(candidate.artistName)
        album == Field(candidate.collectionName)
    IN  (IF q = title \/ q = artist \o <<" ">> \o title THEN 100
         ELSE IF Overlap(title, q) THEN 50 ELSE 0)
        + (IF Overlap(artist, q) THEN 30 ELSE 0)
        + (IF Overlap(album, q) THEN 20 ELSE 0)
        + (IF candidate.artworkUrl100 \notin { None, Some("") } THEN 10 ELSE 0)

SumOf(points) == points.title + points.artist + points.album + points.artwork

\* C31: the score of every candidate, compared lower-cased with the query, is
\* 100 if the query equals the title or "artist title", else 50 if the title
\* contains the query or the query contains the title, else 0; plus 30 if
\* query and artist overlap in the same sense, plus 20 if query and album
\* overlap, plus 10 if artwork is present.
C31_StatedScore ==
    itunes_best # None =>
        \A i \in 1..Len(itunes_results) :
            SumOf(itunes_scores[i]) = StatedScore(itunes_results[i], itunes_term)

\* A candidate scored 100 for "artist title", 30 for the artist, 20 for the
\* album and 10 for the artwork; the query was given in upper case.
C31_Witness ==
    /\ itunes_best # None
    /\ itunes_term = DarkSideUpper
    /\ itunes_results[1] = [trackName |-> Some(Side), artistName |-> Some(Dark),
                            collectionName |-> Some(DarkSideOfTheMoon),
                            artworkUrl100 |-> Some("url")]
    /\ SumOf(itunes_scores[1]) = 160


\* C40: a candidate whose title, artist or album field is missing or empty
\* gets no points for that field: the 50, 30 or 20 overlap component is
\* awarded only when a non-empty field value overlaps the query.
C40_EmptyFieldNoPoints ==
    itunes_best # None =>
        \A i \in 1..Len(itunes_results) :
            /\ Field(itunes_results[i].trackName) = <<>> =>
                   itunes_scores[i].title = 0
            /\ Field(itunes_results[i].artistName) = <<>> =>
                   itunes_scores[i].artist = 0
            /\ Field(itunes_results[i].collectionName) = <<>> =>
                   itunes_scores[i].album = 0


----------------------------------------------------------------------------
(* Claims about the loader thread (SpecLoaderRuns)                         *)

ImageVersions == { Lower(t) : t \in FetchTerms }

\* The published image file holds the whole image of version v.
Settled(v) ==
    /\ path_exists(dir, IMAGE_PATH)
    /\ inodes[dir[IMAGE_PATH]].data = Content(<<"jpg", v>>)

Enqueued(v) == \E i \in 1..Len(queue) : queue[i].image = v

\* C32: every advance of the published image file's modification time is
\* eventually followed by the loader enqueuing content decoded from that
\* version of the file or from a newer one, as long as the loader keeps
\* running. Stated for the last advance: when the file stays the image of
\* version v for good, the loader enqueues the image of version v.
C32_AdvanceEnqueued ==
    \A v \in ImageVersions : (<>[]Settled(v)) => <>Enqueued(v)


----------------------------------------------------------------------------
(* Claims about the status check of the render loop (SpecRender)           *)

Suspended == { "PAUSED", "STOPPED" }

\* The display is suspended: the status file says so, and so did the last
\* frame's read of it.
IsSuspended == status \in Suspended /\ get_display_status \in Suspended

\* C33: in every frame the status check precedes all transition logic: while
\* the status is PAUSED or STOPPED the render loop starts no transition and
\* consumes no pending content from the loader.
C33_SuspendedLoopIdle ==
    [][(IsSuspended /\ dpc = "poll" /\ dpc' = "draw") =>
           /\ queue' = queue
           /\ is_transitioning' => is_transitioning]_vars


----------------------------------------------------------------------------
(* Claims about failed fetches and the cache (SpecFetch)                   *)

\* The request of handler p has returned a failure result.
ReturnedFailure(p) == fpc[p] = "done" /\ ~fresult[p].success

\* The store holds the entry the request of handler p put.
HoldsEntryOf(p) ==
    /\ "image_cache.put" \in fcalls[p]
    /\ SelectByKey(rows, get_cache_key(fterm[p])) # {}
    /\ path_exists(files, FilePath(get_cache_key(fterm[p])))

\* C34: a cache entry is created only by a fetch that succeeds: whenever a
\* fetch request returns a failure result, the Artwork Cache Store contains no
\* entry created or replaced by that request.
C34_FailureCachesNothing ==
    \A p \in Handlers : ReturnedFailure(p) => ~HoldsEntryOf(p)


----------------------------------------------------------------------------
(* Claims about the threads of the render side (SpecOverlays)              *)

\* C35: the render loop performs no blocking network I/O in any frame: every
\* blocking network call of the render side is made by the loader thread,
\* never by the render loop's own thread.
C35_NetworkOffRenderThread ==
    \A c \in io_calls : c.kind = "network" => c.thread = "loader"


----------------------------------------------------------------------------
(* Claims about the outcome of the retry wrapper (SpecRetry)               *)

\* C37: the retry wrapper's outcome is always an outcome of the wrapped
\* operation: for every value of max_attempts it invokes the operation at
\* least once and either returns a value the operation returned or raises an
\* exception the operation raised.
C37_OutcomeIsTheOperations ==
    wpc = "done" =>
        /\ calls >= 1
        /\ outcome.kind = "return" => outcome.value = <<"value", calls>>
        /\ outcome.kind = "raise" =>
               \E i \in 1..Len(raised) : raised[i] = outcome.value


----------------------------------------------------------------------------
(* Claims about what a lookup changes (Spec)                               *)

\* Row r2 is row r with at most last_accessed and access_count changed.
SameButAccess(r, r2) ==
    \A f \in DOMAIN r \ {"last_accessed", "access_count"} : r2[f] = r[f]

\* C36: lookup changes nothing but the hit entry: a lookup of a key that has
\* no row returns none and leaves every row and every backing file unchanged,
\* and a lookup hit changes only the last_accessed and access_count of the
\* entry it returns.
C36_LookupFrame ==
    [][(last'.op = "get" /\ now' # now) =>
           LET cache_key == get_cache_key(last'.term)
           IN  /\ SelectByKey(rows, cache_key) = {} =>
                      /\ last'.ret = None
                      /\ rows' = rows
                      /\ files' = files
               /\ last'.ret # None =>
                      /\ files' = files
                      /\ \E r \in rows, r2 \in rows' :
                             /\ r.search_key = cache_key
                             /\ r2.file_path = last'.ret[1].file_path
                             /\ SameButAccess(r, r2)
                             /\ rows' \ {r2} = rows \ {r}]_vars

\* A lookup hit in a store of two entries or more, after a lookup of a key
\* that had no row.
C36_Witness ==
    /\ last.op = "get"
    /\ last.ret # None
    /\ Cardinality(last.pre) >= 2
    /\ last.prev.op = "get"
    /\ last.prev.ret = None
    /\ SelectByKey(last.pre, get_cache_key(last.prev.term)) = {}


----------------------------------------------------------------------------
(* Claims about the status an update leaves (SpecUpdate)                   *)

\* The step is the return of the update request of handler p.
UpdateReturns(p) == fpc[p] = "done" /\ fpc'[p] = "idle"

\* C38, from failure to status: a step of an update request changes the
\* status file only when it is the return of a request whose fetch succeeded,
\* and then to RUNNING: a failed update or one with an empty search term
\* leaves the status file unchanged.
C38_OnlySuccessSetsRunning ==
    [][StatusContent' # StatusContent =>
           /\ StatusContent' = <<"RUNNING">>
           /\ \E p \in Handlers : UpdateReturns(p) /\ fresult[p].success]_vars

\* C38: an update request sets the display status to RUNNING if and only if
\* its fetch succeeded.
C38_RunningIffSuccess ==
    [][\A p \in Handlers :
           /\ UpdateReturns(p) =>
                  (StatusContent' = <<"RUNNING">>) = fresult[p].success
                  \/ (StatusContent = <<"RUNNING">> /\ StatusContent' = StatusContent)
           /\ StatusContent' # StatusContent =>
                  StatusContent' = <<"RUNNING">> /\ fresult[p].success]_vars


----------------------------------------------------------------------------
(* Claims about content published while the display is suspended           *)
(* (SpecSuspended)                                                         *)

ServedImages == { ImageTerm(n) : n \in 1..MaxServed }

\* The published image file is the image of term v.
ImageIs(v) ==
    /\ path_exists(dir, IMAGE_PATH)
    /\ inodes[dir[IMAGE_PATH]].data = ImageBytes(v)

\* The image of term v is the published one and was published while the
\* status was PAUSED or STOPPED: the status file says so and is not younger
\* than the image file.
PublishedWhileSuspended(v) ==
    /\ ImageIs(v)
    /\ path_exists(dir, STATUS_FILE)
    /\ get_display_status \in Suspended
    /\ inodes[dir[STATUS_FILE]].mtime <= inodes[dir[IMAGE_PATH]].mtime

\* The display runs and has nothing left to do: the status is RUNNING and
\* read as such, no transition is in flight, the queue is empty and the
\* loader has seen the published image file.
RunningAtRest ==
    /\ get_display_status = "RUNNING"
    /\ status = "RUNNING"
    /\ dpc = "poll"
    /\ ~is_transitioning
    /\ queue = <<>>
    /\ rpc = "poll"
    /\ path_exists(dir, IMAGE_PATH)
    /\ last_image_mtime = inodes[dir[IMAGE_PATH]].mtime

\* C39: pausing does not lose content: if images are published while the
\* status is PAUSED or STOPPED, then after the status returns to RUNNING the
\* render loop eventually shows the most recently published image as its
\* current image. Stated for the display at rest: once the image of v has been
\* published while suspended, a running display that has nothing left to do
\* and still has v as the published image shows v.
C39_ShownAfterResume ==
    \A v \in ServedImages :
        [](PublishedWhileSuspended(v) =>
               []((RunningAtRest /\ ImageIs(v)) => current_image = Lower(v)))

====
